---- MODULE Spec2Model ----
(***************************************************************************)
(* A model of the memory-management core of the interpreter: the block     *)
(* allocator (blockalloc), the Sticky Immix heap (stickyimmix: BlockMeta,  *)
(* BumpBlock, BlockList, StickyImmixHeap) and the interpreter's memory     *)
(* layer (ObjectHeader, TaggedPtr/FatPtr, Memory/MutatorView, SymbolMap    *)
(* and its Arena).                                                         *)
(*                                                                         *)
(* Addresses are byte addresses.  Sizes are bytes.  The target is a 64-bit *)
(* machine: size_of::<usize>() is 8.  The model checker's integers are 32  *)
(* bits wide, so the numeric range of a machine word is WordBits bits and  *)
(* the range of ArraySize (u32) is ArraySizeBits bits; both are bounds of  *)
(* the model.                                                              *)
(***************************************************************************)
EXTENDS Integers, Sequences, FiniteSets, TLC

(***************************************************************************)
(* Bounds of the model.                                                    *)
(***************************************************************************)
\* Width in bits of usize/isize in the model.
WordBits == 24
\* Width in bits of ArraySize (u32) in the model.
ArraySizeBits == 20
\* Number of block-sized regions the operating system can hand out.
MaxBlocks == 3
\* Number of successful allocations on the object heap in one behaviour.
MaxAllocs == 3
\* Number of push, pop and set calls on the array in one behaviour of the
\* stack and of the indexed container.
MaxStackOps == 10
MaxIndexedOps == 4
\* Number of calls that make or change the Dict in one behaviour.
MaxDictOps == 4
\* Number of inner_alloc calls of varying sizes on one BumpBlock.
MaxBumpCalls == 3
\* The number of calls made on Blocks used on their own.
MaxBlockCalls == 4
\* Number of calls that change an Array used with access_slice.
MaxArrayOps == 3
\* Number of Memory::mutate calls in one behaviour.
MaxMutates == 2
\* Number of successful lookup_sym calls in one behaviour.
MaxLookups == 4
\* Number of objects allocated before tagged pointers are converted.
MaxPtrObjects == 1

(***************************************************************************)
(* Machine words.                                                          *)
(***************************************************************************)
\* size_of::<usize>() on the 64-bit target.
SizeOfUsize == 8

UsizeModulus == 2 ^ WordBits
UsizeMax == UsizeModulus - 1
IsizeMin == 0 - (2 ^ (WordBits - 1))
IsizeMax == (2 ^ (WordBits - 1)) - 1

\* `v as usize` for an isize v: two's complement reinterpretation.
AsUsize(v) == v % UsizeModulus
\* `w as isize` for a usize w.
AsIsize(w) == IF w >= 2 ^ (WordBits - 1) THEN w - UsizeModulus ELSE w
\* `w << n` on usize: bits shifted out at the top are lost.
Shl(w, n) == (w * (2 ^ n)) % UsizeModulus
\* `v >> n` on isize: arithmetic shift (\div rounds toward minus infinity).
Sar(v, n) == v \div (2 ^ n)

RECURSIVE BitAnd(_, _)
BitAnd(a, b) ==
    IF a = 0 \/ b = 0 THEN 0
    ELSE ((a % 2) * (b % 2)) + 2 * BitAnd(a \div 2, b \div 2)

RECURSIVE BitOr(_, _)
BitOr(a, b) ==
    IF a = 0 THEN b
    ELSE IF b = 0 THEN a
    ELSE (IF (a % 2) + (b % 2) > 0 THEN 1 ELSE 0) + 2 * BitOr(a \div 2, b \div 2)

\* `!m` on usize.
BitNot(m) == UsizeMax - m

(***************************************************************************)
(* stickyimmix/src/constants.rs                                            *)
(***************************************************************************)
BLOCK_SIZE_BITS == 15
BLOCK_SIZE == 2 ^ BLOCK_SIZE_BITS
LINE_SIZE_BITS == 7
LINE_SIZE == 2 ^ LINE_SIZE_BITS
LINE_COUNT == BLOCK_SIZE \div LINE_SIZE
BLOCK_CAPACITY == BLOCK_SIZE - LINE_COUNT
LINE_MARK_START == BLOCK_CAPACITY
LINE_MARK_COUNT == BLOCK_CAPACITY \div LINE_SIZE
MAX_ALLOC_SIZE == (2 ^ ArraySizeBits) - 1
ALLOC_ALIGN_MASK == BitNot(SizeOfUsize - 1)
SMALL_OBJECT_MIN == 1
SMALL_OBJECT_MAX == LINE_SIZE
MEDIUM_OBJECT_MIN == SMALL_OBJECT_MAX + 1
MEDIUM_OBJECT_MAX == BLOCK_CAPACITY
LARGE_OBJECT_MIN == MEDIUM_OBJECT_MAX + 1
LARGE_OBJECT_MAX == MAX_ALLOC_SIZE

(***************************************************************************)
(* stickyimmix/src/allocator.rs                                            *)
(***************************************************************************)
\* get_for_size with the upper bound of each class excluded from it.
get_for_size_bounds_excluded(object_size) ==
    IF object_size >= SMALL_OBJECT_MIN /\ object_size < SMALL_OBJECT_MAX
        THEN [ok |-> TRUE, class |-> "Small"]
    ELSE IF object_size >= MEDIUM_OBJECT_MIN /\ object_size < MEDIUM_OBJECT_MAX
        THEN [ok |-> TRUE, class |-> "Medium"]
    ELSE IF object_size >= LARGE_OBJECT_MIN /\ object_size < LARGE_OBJECT_MAX
        THEN [ok |-> TRUE, class |-> "Large"]
    ELSE [ok |-> FALSE, class |-> "BadRequest"]

\* get_for_size with MEDIUM_OBJECT_MAX taken to be the block size instead of
\* the block capacity.
get_for_size_medium_to_block_size(object_size) ==
    IF object_size >= SMALL_OBJECT_MIN /\ object_size <= SMALL_OBJECT_MAX
        THEN [ok |-> TRUE, class |-> "Small"]
    ELSE IF object_size >= MEDIUM_OBJECT_MIN /\ object_size <= BLOCK_SIZE
        THEN [ok |-> TRUE, class |-> "Medium"]
    ELSE IF object_size >= BLOCK_SIZE + 1 /\ object_size <= LARGE_OBJECT_MAX
        THEN [ok |-> TRUE, class |-> "Large"]
    ELSE [ok |-> FALSE, class |-> "BadRequest"]

\* SizeClass::get_for_size: Ok(class) or Err(BadRequest).
get_for_size(object_size) ==
    IF object_size >= SMALL_OBJECT_MIN /\ object_size <= SMALL_OBJECT_MAX
        THEN [ok |-> TRUE, class |-> "Small"]
    ELSE IF object_size >= MEDIUM_OBJECT_MIN /\ object_size <= MEDIUM_OBJECT_MAX
        THEN [ok |-> TRUE, class |-> "Medium"]
    ELSE IF object_size >= LARGE_OBJECT_MIN /\ object_size <= LARGE_OBJECT_MAX
        THEN [ok |-> TRUE, class |-> "Large"]
    ELSE [ok |-> FALSE, class |-> "BadRequest"]

\* alloc_size_of: the size rounded up to the next word boundary.
alloc_size_of(object_size) ==
    BitAnd(object_size + (SizeOfUsize - 1), BitNot(SizeOfUsize - 1))

(***************************************************************************)
(* blockalloc/src/lib.rs                                                   *)
(***************************************************************************)
\* The operating system's reply to a block request: a base address, or OOM.
OOM == 0
\* The block-size-aligned regions the operating system can hand out.
OsBases == { k * BLOCK_SIZE : k \in 1..MaxBlocks }

\* `a - b` on usize: below zero the subtraction wraps, or panics in a build
\* with overflow checks (the default of debug builds).
SubUsize(a, b, overflow_checks) ==
    IF a < b
        THEN [panic |-> overflow_checks, val |-> (a - b) % UsizeModulus]
    ELSE [panic |-> FALSE, val |-> a - b]

\* posix_memalign(&address, alignment, size): EINVAL unless the alignment is a
\* power of two and a multiple of sizeof(void *); else ENOMEM, or the first
\* address with that alignment at or after the place `os` the platform has
\* free.
posix_memalign(alignment, size, os) ==
    IF ~(alignment > 0 /\ BitAnd(alignment, alignment - 1) = 0
            /\ alignment % SizeOfUsize = 0)
        THEN [rval |-> "EINVAL", address |-> 0]
    ELSE IF os = OOM
        THEN [rval |-> "ENOMEM", address |-> 0]
    ELSE [rval |-> "0",
          address |-> ((os + alignment - 1) \div alignment) * alignment]

\* The result of alloc_block for what posix_memalign returned.
BlockPtrOf(r) ==
    IF r.rval = "0" THEN [status |-> "Ok", ptr |-> r.address]
    ELSE IF r.rval = "EINVAL" THEN [status |-> "BadRequest", ptr |-> 0]
    ELSE [status |-> "OOM", ptr |-> 0]

\* alloc_block asking for the alignment of a machine word.
alloc_block_word_aligned(size, os) == BlockPtrOf(posix_memalign(SizeOfUsize, size, os))

\* internal::alloc_block(size) on unix.
alloc_block(size, os) == BlockPtrOf(posix_memalign(size, size, os))

\* The end of Block::new, `ptr` being what alloc_block returned.
\* A call of Block::new that returned no block: Err(status), or a panic
NoBlock(status) == [status |-> status, ptr |-> 0, size |-> 0]

BlockOfPtr(ptr, size) ==
    IF ptr.status # "Ok" THEN NoBlock(ptr.status)
    ELSE [status |-> "Ok", ptr |-> ptr.ptr, size |-> size]

\* Block::new(size) with the platform's reply `os` to alloc_block(size), in a
\* build with or without overflow checks.
BlockNew(size, os, overflow_checks) ==
    IF SubUsize(size, 1, overflow_checks).panic
        THEN NoBlock("Panic")
    ELSE IF ~(BitAnd(size, SubUsize(size, 1, overflow_checks).val) = 0)
        THEN NoBlock("BadRequest")
    ELSE BlockOfPtr(alloc_block(size, os), size)

(***************************************************************************)
(* stickyimmix/src/blockmeta.rs                                            *)
(* The line marks of a block are modelled as the set of marked line        *)
(* indexes.                                                                *)
(***************************************************************************)
NoHole == [found |-> FALSE, cursor |-> 0, limit |-> 0]

\* The state of the loop of find_next_available_hole before any line is
\* looked at: nothing returned, no line counted, the hole ending at the line
\* the search starts at.
HoleSearchFrom(starting_line) ==
    [returned |-> FALSE, ret |-> NoHole, count |-> 0, end |-> starting_line]

\* The body of the loop dropping a run of unmarked lines that is too short
\* without moving the end of the next run down to the marked line.
HoleStep_end_not_reset(marks, s, index, lines_required) ==
    IF s.returned THEN s
    ELSE IF index \notin marks
        THEN IF index = 0 /\ s.count + 1 >= lines_required
                THEN [s EXCEPT !.returned = TRUE,
                               !.ret = [found |-> TRUE, cursor |-> s.end * LINE_SIZE,
                                        limit |-> index * LINE_SIZE]]
                ELSE [s EXCEPT !.count = s.count + 1]
    ELSE IF s.count > lines_required
        THEN [s EXCEPT !.returned = TRUE,
                       !.ret = [found |-> TRUE, cursor |-> s.end * LINE_SIZE,
                                limit |-> (index + 2) * LINE_SIZE]]
    ELSE [s EXCEPT !.count = 0]

\* The body of the loop holding back the two lines above a marked line.
HoleStep_two_lines_held_back(marks, s, index, lines_required) ==
    IF s.returned THEN s
    ELSE IF index \notin marks
        THEN IF index = 0 /\ s.count + 1 >= lines_required
                THEN [s EXCEPT !.returned = TRUE,
                               !.ret = [found |-> TRUE, cursor |-> s.end * LINE_SIZE,
                                        limit |-> index * LINE_SIZE]]
                ELSE [s EXCEPT !.count = s.count + 1]
    ELSE IF s.count > lines_required + 1
        THEN [s EXCEPT !.returned = TRUE,
                       !.ret = [found |-> TRUE, cursor |-> s.end * LINE_SIZE,
                                limit |-> (index + 3) * LINE_SIZE]]
    ELSE [s EXCEPT !.count = 0, !.end = index]

\* The body of the loop asking of the unmarked lines that reach line 0 one
\* line more than required, as of those above a marked line.
HoleStep_one_more_line_at_line_zero(marks, s, index, lines_required) ==
    IF s.returned THEN s
    ELSE IF index \notin marks
        THEN IF index = 0 /\ s.count + 1 > lines_required
                THEN [s EXCEPT !.returned = TRUE,
                               !.ret = [found |-> TRUE, cursor |-> s.end * LINE_SIZE,
                                        limit |-> index * LINE_SIZE]]
                ELSE [s EXCEPT !.count = s.count + 1]
    ELSE IF s.count > lines_required
        THEN [s EXCEPT !.returned = TRUE,
                       !.ret = [found |-> TRUE, cursor |-> s.end * LINE_SIZE,
                                limit |-> (index + 2) * LINE_SIZE]]
    ELSE [s EXCEPT !.count = 0, !.end = index]

\* The body of the loop taking the unmarked lines above a marked line as a
\* hole as soon as they are as many as required, the line held back
\* counted among them.
HoleStep_held_back_line_counted(marks, s, index, lines_required) ==
    IF s.returned THEN s
    ELSE IF index \notin marks
        THEN IF index = 0 /\ s.count + 1 >= lines_required
                THEN [s EXCEPT !.returned = TRUE,
                               !.ret = [found |-> TRUE, cursor |-> s.end * LINE_SIZE,
                                        limit |-> index * LINE_SIZE]]
                ELSE [s EXCEPT !.count = s.count + 1]
    ELSE IF s.count >= lines_required /\ s.count > 1
        THEN [s EXCEPT !.returned = TRUE,
                       !.ret = [found |-> TRUE, cursor |-> s.end * LINE_SIZE,
                                limit |-> (index + 2) * LINE_SIZE]]
    ELSE [s EXCEPT !.count = 0, !.end = index]

\* The body of the loop taking the unmarked lines above a marked line as a
\* hole as soon as they are as many as required, none of them held back.
HoleStep_no_line_held_back(marks, s, index, lines_required) ==
    IF s.returned THEN s
    ELSE IF index \notin marks
        THEN IF index = 0 /\ s.count + 1 >= lines_required
                THEN [s EXCEPT !.returned = TRUE,
                               !.ret = [found |-> TRUE, cursor |-> s.end * LINE_SIZE,
                                        limit |-> index * LINE_SIZE]]
                ELSE [s EXCEPT !.count = s.count + 1]
    ELSE IF s.count >= lines_required
        THEN [s EXCEPT !.returned = TRUE,
                       !.ret = [found |-> TRUE, cursor |-> s.end * LINE_SIZE,
                                limit |-> (index + 1) * LINE_SIZE]]
    ELSE [s EXCEPT !.count = 0, !.end = index]

\* The body of the loop of find_next_available_hole for the line `index`,
\* `s` being the loop's state: whether it has returned and what, `count` and
\* `end`.
HoleStep(marks, s, index, lines_required) ==
    IF s.returned THEN s
    ELSE IF index \notin marks
        THEN IF index = 0 /\ s.count + 1 >= lines_required
                THEN [s EXCEPT !.returned = TRUE,
                               !.ret = [found |-> TRUE, cursor |-> s.end * LINE_SIZE,
                                        limit |-> index * LINE_SIZE]]
                ELSE [s EXCEPT !.count = s.count + 1]
    ELSE IF s.count > lines_required
        THEN [s EXCEPT !.returned = TRUE,
                       !.ret = [found |-> TRUE, cursor |-> s.end * LINE_SIZE,
                                limit |-> (index + 2) * LINE_SIZE]]
    ELSE [s EXCEPT !.count = 0, !.end = index]

\* The loop of find_next_available_hole over the lines from `hi` down to
\* `lo`, until it returns: the upper half of the lines, then the lower half.
RECURSIVE HoleLoop(_, _, _, _, _)
HoleLoop(marks, s, hi, lo, lines_required) ==
    IF s.returned \/ hi < lo THEN s
    ELSE IF hi = lo THEN HoleStep(marks, s, hi, lines_required)
    ELSE HoleLoop(marks,
                  HoleLoop(marks, s, hi, ((hi + lo) \div 2) + 1, lines_required),
                  (hi + lo) \div 2, lo, lines_required)

\* find_next_available_hole asking for one line more than the size fills.
find_next_available_hole_one_line_more(marks, starting_at, alloc_size) ==
    LET starting_line == starting_at \div LINE_SIZE
        lines_required == (alloc_size \div LINE_SIZE) + 1
    IN  HoleLoop(marks, HoleSearchFrom(starting_line), starting_line - 1, 0,
                 lines_required).ret

\* find_next_available_hole searching the whole block, wherever it is told
\* to start.
find_next_available_hole_from_block_end(marks, starting_at, alloc_size) ==
    LET starting_line == BLOCK_CAPACITY \div LINE_SIZE
        lines_required == (alloc_size + LINE_SIZE - 1) \div LINE_SIZE
    IN  HoleLoop(marks, HoleSearchFrom(starting_line), starting_line - 1, 0,
                 lines_required).ret

\* find_next_available_hole rounding the lines required down, to no less
\* than one line.
find_next_available_hole_lines_rounded_down(marks, starting_at, alloc_size) ==
    LET starting_line == starting_at \div LINE_SIZE
        lines_required == IF alloc_size < LINE_SIZE THEN 1 ELSE alloc_size \div LINE_SIZE
    IN  HoleLoop(marks, HoleSearchFrom(starting_line), starting_line - 1, 0,
                 lines_required).ret

find_next_available_hole(marks, starting_at, alloc_size) ==
    LET starting_line == starting_at \div LINE_SIZE
        lines_required == (alloc_size + LINE_SIZE - 1) \div LINE_SIZE
    IN  HoleLoop(marks, HoleSearchFrom(starting_line), starting_line - 1, 0,
                 lines_required).ret

(***************************************************************************)
(* stickyimmix/src/bumpblock.rs                                            *)
(* A BumpBlock is [base, cursor, limit, marks]: the block's base address,  *)
(* the bump cursor and limit (addresses) and the block's line marks.       *)
(***************************************************************************)
\* BumpBlock::new with the platform's reply `os`; BLOCK_SIZE - 1 does not
\* overflow, whatever the build.
BumpBlockNew(os) ==
    LET inner_block == BlockNew(BLOCK_SIZE, os, TRUE)
    IN  IF inner_block.status # "Ok"
            THEN [status |-> inner_block.status,
                  block |-> [base |-> 0, cursor |-> 0, limit |-> 0, marks |-> {}]]
        ELSE [status |-> "Ok",
              block |-> [base |-> inner_block.ptr,
                         cursor |-> inner_block.ptr + BLOCK_CAPACITY,
                         limit |-> inner_block.ptr,
                         marks |-> {}]]

\* What inner_alloc returns when the call it makes again after a hole search
\* returns `r`: `searches` counts the calls of find_next_available_hole made.
Searched(r) == [r EXCEPT !.searches = r.searches + 1]

\* inner_alloc bumping the cursor down by the size alone, without aligning
\* it.
RECURSIVE inner_alloc_unaligned(_, _)
inner_alloc_unaligned(block, alloc_size) ==
    LET ptr == block.cursor
        limit == block.limit
    IN  IF ptr < alloc_size
            THEN [some |-> FALSE, ptr |-> 0, searches |-> 0, block |-> block]
        ELSE
            LET next_ptr == ptr - alloc_size
            IN  IF next_ptr < limit
                    THEN LET block_relative_limit == block.limit - block.base
                             hole == find_next_available_hole(
                                        block.marks, block_relative_limit, alloc_size)
                         IN  IF block_relative_limit > 0 /\ hole.found
                                THEN Searched(inner_alloc_unaligned(
                                        [block EXCEPT !.cursor = block.base + hole.cursor,
                                                      !.limit = block.base + hole.limit],
                                        alloc_size))
                                ELSE [some |-> FALSE, ptr |-> 0,
                                      searches |-> IF block_relative_limit > 0 THEN 1 ELSE 0,
                                      block |-> block]
                ELSE [some |-> TRUE, ptr |-> next_ptr, searches |-> 0,
                      block |-> [block EXCEPT !.cursor = next_ptr]]

\* inner_alloc giving up the rest of the current hole when it finds no
\* space: the limit is moved up to the cursor.
RECURSIVE inner_alloc_hole_closed_on_none(_, _)
inner_alloc_hole_closed_on_none(block, alloc_size) ==
    LET ptr == block.cursor
        limit == block.limit
    IN  IF ptr < alloc_size
            THEN [some |-> FALSE, ptr |-> 0, searches |-> 0,
                  block |-> [block EXCEPT !.limit = ptr]]
        ELSE
            LET next_ptr == BitAnd(ptr - alloc_size, ALLOC_ALIGN_MASK)
            IN  IF next_ptr < limit
                    THEN LET block_relative_limit == block.limit - block.base
                             hole == find_next_available_hole(
                                        block.marks, block_relative_limit, alloc_size)
                         IN  IF block_relative_limit > 0 /\ hole.found
                                THEN Searched(inner_alloc_hole_closed_on_none(
                                        [block EXCEPT !.cursor = block.base + hole.cursor,
                                                      !.limit = block.base + hole.limit],
                                        alloc_size))
                                ELSE [some |-> FALSE, ptr |-> 0,
                                      searches |-> IF block_relative_limit > 0 THEN 1 ELSE 0,
                                      block |-> [block EXCEPT !.limit = ptr]]
                ELSE [some |-> TRUE, ptr |-> next_ptr, searches |-> 0,
                      block |-> [block EXCEPT !.cursor = next_ptr]]

\* inner_alloc returning the space without moving the cursor.
inner_alloc_cursor_kept(block, alloc_size) ==
    LET next_ptr == BitAnd(block.cursor - alloc_size, ALLOC_ALIGN_MASK)
    IN  IF block.cursor < alloc_size \/ next_ptr < block.limit
            THEN [some |-> FALSE, ptr |-> 0, searches |-> 0, block |-> block]
        ELSE [some |-> TRUE, ptr |-> next_ptr, searches |-> 0, block |-> block]

\* inner_alloc moving the cursor before comparing it with the limit.
inner_alloc_cursor_first(block, alloc_size) ==
    LET next_ptr == BitAnd(block.cursor - alloc_size, ALLOC_ALIGN_MASK)
    IN  IF block.cursor < alloc_size
            THEN [some |-> FALSE, ptr |-> 0, searches |-> 0, block |-> block]
        ELSE IF next_ptr < block.limit
            THEN [some |-> FALSE, ptr |-> 0, searches |-> 0,
                  block |-> [block EXCEPT !.cursor = next_ptr]]
        ELSE [some |-> TRUE, ptr |-> next_ptr, searches |-> 0,
              block |-> [block EXCEPT !.cursor = next_ptr]]

\* BumpBlock::inner_alloc: [some, ptr, searches, block] with the block as it
\* is left and the number of hole searches the call made.
RECURSIVE inner_alloc(_, _)
inner_alloc(block, alloc_size) ==
    LET ptr == block.cursor
        limit == block.limit
    IN  IF ptr < alloc_size
            THEN [some |-> FALSE, ptr |-> 0, searches |-> 0, block |-> block]
        ELSE
            LET next_ptr == BitAnd(ptr - alloc_size, ALLOC_ALIGN_MASK)
            IN  IF next_ptr < limit
                    THEN LET block_relative_limit == block.limit - block.base
                             hole == find_next_available_hole(
                                        block.marks, block_relative_limit, alloc_size)
                         IN  IF block_relative_limit > 0 /\ hole.found
                                THEN Searched(inner_alloc(
                                        [block EXCEPT !.cursor = block.base + hole.cursor,
                                                      !.limit = block.base + hole.limit],
                                        alloc_size))
                                ELSE [some |-> FALSE, ptr |-> 0,
                                      searches |-> IF block_relative_limit > 0 THEN 1 ELSE 0,
                                      block |-> block]
                ELSE [some |-> TRUE, ptr |-> next_ptr, searches |-> 0,
                      block |-> [block EXCEPT !.cursor = next_ptr]]

current_hole_size(block) == block.cursor - block.limit

(***************************************************************************)
(* stickyimmix/src/heap.rs: BlockList and StickyImmixHeap::find_space      *)
(* A BlockList is [head, overflow, rest]; head and overflow are sequences  *)
(* of length 0 (None) or 1 (Some(block)), rest is the sequence of retired  *)
(* blocks.  The result of a search for space is                            *)
(*   [status, space, blocks, took]                                         *)
(* with status Ok, BadRequest, OOM or Panic, the address found, the block  *)
(* list as the call leaves it, and whether the platform's reply `os` to a  *)
(* block request was consumed.                                             *)
(***************************************************************************)
BlockListNew == [head |-> <<>>, overflow |-> <<>>, rest |-> <<>>]

SpaceErr(status, blocks) ==
    [status |-> status, space |-> 0, blocks |-> blocks, took |-> FALSE]

\* `BumpBlock::new()?` followed by `inner_alloc(alloc_size).expect(..)` in the
\* new block, `fresh` being what BumpBlock::new returned and `space` what
\* inner_alloc returned: [status, space, block, took].
InNewBlock(fresh, space) ==
    IF fresh.status # "Ok"
        THEN [status |-> fresh.status, space |-> 0, block |-> fresh.block,
              took |-> FALSE]
    ELSE IF ~space.some
        THEN [status |-> "Panic", space |-> 0, block |-> space.block, took |-> TRUE]
    ELSE [status |-> "Ok", space |-> space.ptr, block |-> space.block, took |-> TRUE]

AllocInFresh(fresh, alloc_size) ==
    InNewBlock(fresh, inner_alloc(fresh.block, alloc_size))

NewBlockAlloc(alloc_size, os) == AllocInFresh(BumpBlockNew(os), alloc_size)

\* The `None =>` arms of overflow_alloc and find_space: `list` (overflow or
\* head) holds no block, and the new block is put there.
InstallNew(blocks, list, new) ==
    IF new.status # "Ok"
        THEN [status |-> new.status, space |-> 0, blocks |-> blocks,
              took |-> new.took]
    ELSE [status |-> "Ok", space |-> new.space,
          blocks |-> [blocks EXCEPT ![list] = <<new.block>>], took |-> TRUE]

\* The `None =>` case inside the `Some(..)` arms: the block `old` of `list`
\* had no space; the new block replaces it and `old` is pushed to rest.
ReplaceWithNew(blocks, list, old, new) ==
    IF new.status # "Ok"
        THEN [status |-> new.status, space |-> 0,
              blocks |-> [blocks EXCEPT ![list] = <<old>>], took |-> new.took]
    ELSE [status |-> "Ok", space |-> new.space,
          blocks |-> [blocks EXCEPT ![list] = <<new.block>>,
                                    !.rest = Append(@, old)],
          took |-> TRUE]

\* The `Some(..)` arms of overflow_alloc and find_space, `first` being what
\* inner_alloc returned on the block of `list`.
InCurrentBlock(blocks, list, first, alloc_size, os) ==
    IF first.some
        THEN [status |-> "Ok", space |-> first.ptr,
              blocks |-> [blocks EXCEPT ![list] = <<first.block>>], took |-> FALSE]
    ELSE ReplaceWithNew(blocks, list, first.block, NewBlockAlloc(alloc_size, os))

\* BlockList::overflow_alloc
overflow_alloc(blocks, alloc_size, os) ==
    IF ~(alloc_size <= BLOCK_CAPACITY) THEN SpaceErr("Panic", blocks)
    ELSE IF blocks.overflow # <<>>
        THEN InCurrentBlock(blocks, "overflow",
                            inner_alloc(blocks.overflow[1], alloc_size), alloc_size, os)
    ELSE InstallNew(blocks, "overflow", NewBlockAlloc(alloc_size, os))

\* find_space without the overflow block: a Medium object the head's hole
\* cannot take is handled as a Small one is.
find_space_without_overflow(blocks, alloc_size, size_class, os) ==
    IF size_class = "Large" THEN SpaceErr("BadRequest", blocks)
    ELSE IF blocks.head # <<>>
        THEN InCurrentBlock(blocks, "head",
                            inner_alloc(blocks.head[1], alloc_size), alloc_size, os)
    ELSE InstallNew(blocks, "head", NewBlockAlloc(alloc_size, os))

\* find_space sending every Medium object to the overflow block once there
\* is a head, whatever the head's hole holds.
find_space_medium_to_overflow(blocks, alloc_size, size_class, os) ==
    IF size_class = "Large" THEN SpaceErr("BadRequest", blocks)
    ELSE IF blocks.head # <<>>
        THEN IF size_class = "Medium"
                THEN overflow_alloc(blocks, alloc_size, os)
             ELSE InCurrentBlock(blocks, "head",
                                 inner_alloc(blocks.head[1], alloc_size), alloc_size, os)
    ELSE InstallNew(blocks, "head", NewBlockAlloc(alloc_size, os))

\* StickyImmixHeap::find_space
find_space(blocks, alloc_size, size_class, os) ==
    IF size_class = "Large" THEN SpaceErr("BadRequest", blocks)
    ELSE IF blocks.head # <<>>
        THEN IF size_class = "Medium"
                /\ alloc_size > current_hole_size(blocks.head[1])
                THEN overflow_alloc(blocks, alloc_size, os)
             ELSE InCurrentBlock(blocks, "head",
                                 inner_alloc(blocks.head[1], alloc_size), alloc_size, os)
    ELSE InstallNew(blocks, "head", NewBlockAlloc(alloc_size, os))

(***************************************************************************)
(* Process memory.  Memory is modelled as the log of the writes made to    *)
(* it, in program order: [addr, len, kind, val] says that the `len` bytes  *)
(* from `addr` were written with `val` (a header, an object, or zero       *)
(* bytes).  A byte holds what the last write covering it put there; a      *)
(* byte no write covers holds whatever the platform left in the block.     *)
(***************************************************************************)
Uninit == [kind |-> "uninit", val |-> 0]

\* ptr::write of `len` bytes; a zero-sized value writes nothing.
MemWrite(m, addr, len, kind, val) ==
    IF len = 0 THEN m
    ELSE Append(m, [addr |-> addr, len |-> len, kind |-> kind, val |-> val])

Covers(w, a) == w.addr <= a /\ a < w.addr + w.len

\* The index of the last write covering byte `a`, 0 if there is none.
LastWrite(m, a) ==
    LET idx == { i \in DOMAIN m : Covers(m[i], a) }
    IN  IF idx = {} THEN 0 ELSE CHOOSE i \in idx : \A j \in idx : j <= i

\* What byte `a` holds.
ReadByte(m, a) ==
    LET i == LastWrite(m, a)
    IN  IF i = 0 THEN Uninit ELSE [kind |-> m[i].kind, val |-> m[i].val]

\* The addresses in [a, a + len) at which the contents of memory can change:
\* the start of the range and the edges of the writes inside it.
Edges(m, a, len) ==
    { e \in {a} \cup { m[i].addr : i \in DOMAIN m }
                \cup { m[i].addr + m[i].len : i \in DOMAIN m } :
        a <= e /\ e < a + len }

\* Reading a value of `len` bytes of the given kind at `a`: the value last
\* written there if every byte of it is still that write's, else Uninit.
ReadValue(m, a, len, kind) ==
    LET i == LastWrite(m, a)
    IN  IF len = 0 THEN [kind |-> kind, val |-> 0]
        ELSE IF i # 0 /\ m[i].addr = a /\ m[i].len = len /\ m[i].kind = kind
                /\ \A e \in Edges(m, a, len) : LastWrite(m, e) = i
            THEN [kind |-> kind, val |-> m[i].val]
        ELSE Uninit

(***************************************************************************)
(* Object headers: interpreter/src/headers.rs (ObjectHeader) and           *)
(* interpreter/src/arena.rs (ArenaHeader).                                 *)
(***************************************************************************)
\* size_of::<ObjectHeader>(): mark (u8), size_class (u8), type_id (u16),
\* size_bytes (u32).
ObjectHeaderSize == 8
\* size_of::<ArenaHeader>(): a struct with no fields.
ArenaHeaderSize == 0

size_of_header(H) == IF H = "ObjectHeader" THEN ObjectHeaderSize ELSE ArenaHeaderSize

\* `n as ArraySize`
AsArraySize(n) == n % (2 ^ ArraySizeBits)

\* AllocHeader::new::<O>(size, size_class, mark)
HeaderNew(H, O, size, size_class, mark) ==
    IF H = "ObjectHeader"
        THEN [mark |-> mark, size_class |-> size_class,
              type_id |-> O.type_id, size_bytes |-> size]
    ELSE [arena |-> TRUE]

\* AllocHeader::new_array(size, size_class, mark)
HeaderNewArray(H, size, size_class, mark) ==
    IF H = "ObjectHeader"
        THEN [mark |-> mark, size_class |-> size_class,
              type_id |-> "ArrayBackingBytes", size_bytes |-> size]
    ELSE [arena |-> TRUE]

(***************************************************************************)
(* stickyimmix/src/heap.rs: impl AllocRaw for StickyImmixHeap<H>           *)
(* The result of an allocation is                                          *)
(*   [status, ptr, blocks, mem, took, space, alloc_size]                   *)
(* where space and alloc_size are the values of the call's local           *)
(* variables of those names.                                               *)
(***************************************************************************)
AllocErr(status, blocks, m, took) ==
    [status |-> status, ptr |-> 0, blocks |-> blocks, mem |-> m, took |-> took,
     space |-> 0, alloc_size |-> 0]

\* get_header stepping back one byte instead of one header.
get_header_one_byte(H, object) == object - 1

\* get_header(object) for header type H
get_header(H, object) == object - size_of_header(H)

\* get_object(header) for header type H
get_object(H, header) == header + size_of_header(H)

\* The end of alloc and alloc_array, `found` being what find_space returned
\* (`?` hands its error on): the header is written to the space and the
\* payload after it.
WriteAllocation(found, m, header_size, header, alloc_size, payload_size, kind, val) ==
    IF found.status # "Ok" THEN AllocErr(found.status, found.blocks, m, found.took)
    ELSE [status |-> "Ok", ptr |-> found.space + header_size,
          blocks |-> found.blocks,
          mem |-> MemWrite(MemWrite(m, found.space, header_size, "header", header),
                           found.space + header_size, payload_size, kind, val),
          took |-> found.took, space |-> found.space, alloc_size |-> alloc_size]

\* alloc::<T> putting the size of the whole allocation into the header.
alloc_header_total_size(blocks, m, H, T, object, os) ==
    LET header_size == size_of_header(H)
        object_size == T.size
        total_size == header_size + object_size
        alloc_size == alloc_size_of(total_size)
        size_class == get_for_size(alloc_size)
    IN  IF ~size_class.ok THEN AllocErr("BadRequest", blocks, m, FALSE)
        ELSE WriteAllocation(
                find_space(blocks, alloc_size, size_class.class, os), m, header_size,
                HeaderNew(H, T, AsArraySize(alloc_size), size_class.class, "Allocated"),
                alloc_size, object_size, "object", object)

\* alloc::<T>(object): T is [type_id, size], size being size_of::<T>().
alloc(blocks, m, H, T, object, os) ==
    LET header_size == size_of_header(H)
        object_size == T.size
        total_size == header_size + object_size
        alloc_size == alloc_size_of(total_size)
        size_class == get_for_size(alloc_size)
    IN  IF ~size_class.ok THEN AllocErr("BadRequest", blocks, m, FALSE)
        ELSE WriteAllocation(
                find_space(blocks, alloc_size, size_class.class, os), m, header_size,
                HeaderNew(H, T, AsArraySize(object_size), size_class.class, "Allocated"),
                alloc_size, object_size, "object", object)

\* alloc_array zeroing one byte less than the array.
alloc_array_short_zero(blocks, m, H, size_bytes, os) ==
    LET header_size == size_of_header(H)
        total_size == header_size + size_bytes
        alloc_size == alloc_size_of(total_size)
        size_class == get_for_size(alloc_size)
    IN  IF ~size_class.ok THEN AllocErr("BadRequest", blocks, m, FALSE)
        ELSE WriteAllocation(
                find_space(blocks, alloc_size, size_class.class, os), m, header_size,
                HeaderNewArray(H, size_bytes, size_class.class, "Allocated"),
                alloc_size, size_bytes - 1, "zero", 0)

\* alloc_array(size_bytes)
alloc_array(blocks, m, H, size_bytes, os) ==
    LET header_size == size_of_header(H)
        total_size == header_size + size_bytes
        alloc_size == alloc_size_of(total_size)
        size_class == get_for_size(alloc_size)
    IN  IF ~size_class.ok THEN AllocErr("BadRequest", blocks, m, FALSE)
        ELSE WriteAllocation(
                find_space(blocks, alloc_size, size_class.class, os), m, header_size,
                HeaderNewArray(H, size_bytes, size_class.class, "Allocated"),
                alloc_size, size_bytes, "zero", 0)

(***************************************************************************)
(* interpreter/src/pointerops.rs                                           *)
(***************************************************************************)
TAG_MASK == 3
TAG_NUMBER == 0
TAG_SYMBOL == 1
TAG_PAIR == 2
TAG_OBJECT == 3
PTR_MASK == BitNot(3)

get_tag(tagged_word) == BitAnd(tagged_word, TAG_MASK)

\* RawPtr::tag
tag(ptr, t) == BitOr(ptr, t)

\* RawPtr::untag
untag(from) == BitAnd(from, PTR_MASK)

(***************************************************************************)
(* interpreter/src/taggedptr.rs                                            *)
(* A TaggedPtr is its machine word (a usize).  A FatPtr is [variant, val]: *)
(* val is the pointer, the number, or 0 for Nil.                           *)
(***************************************************************************)
\* The variants of FatPtr that hold a pointer.
FatPtrPointerVariants ==
    {"ArrayU8", "ArrayU16", "ArrayU32", "Dict", "Function", "List",
     "NumberObject", "Pair", "Partial", "Symbol", "Text", "Upvalue"}

FatNil == [variant |-> "Nil", val |-> 0]
FatNumber(n) == [variant |-> "Number", val |-> n]
FatPanic == [variant |-> "Panic", val |-> 0]
\* The outcome of reading a header where none was written.
FatUndefined == [variant |-> "Undefined", val |-> 0]

\* impl From<RawPtr<T>> for FatPtr, T being the type of that name.
FatPtrFromRawPtr(type_id, ptr) == [variant |-> type_id, val |-> ptr]

\* TaggedPtr::nil
TaggedPtrNil == 0
\* TaggedPtr::is_nil
is_nil(t) == t = 0
\* TaggedPtr::object
TaggedPtrObject(ptr) == tag(ptr, TAG_OBJECT)
\* TaggedPtr::pair
TaggedPtrPair(ptr) == tag(ptr, TAG_PAIR)
\* TaggedPtr::symbol
TaggedPtrSymbol(ptr) == tag(ptr, TAG_SYMBOL)
\* TaggedPtr::number
TaggedPtrNumber(value) == BitOr(Shl(AsUsize(value), 2), TAG_NUMBER)

\* get_object_fatptr with the arm of TypeList::Text making a FatPtr::Symbol.
get_object_fatptr_text_as_symbol(header, ptr_to_self) ==
    LET object_addr == get_object("ObjectHeader", ptr_to_self)
    IN  IF header.type_id \in
            {"ArrayU8", "ArrayU16", "ArrayU32", "Dict", "Function", "List",
             "NumberObject", "Pair", "Partial", "Symbol", "Upvalue"}
            THEN [variant |-> header.type_id, val |-> untag(object_addr)]
        ELSE IF header.type_id = "Text"
            THEN [variant |-> "Symbol", val |-> untag(object_addr)]
        ELSE FatPanic

\* ObjectHeader::get_object_fatptr, the header being at ptr_to_self.
get_object_fatptr(header, ptr_to_self) ==
    LET object_addr == get_object("ObjectHeader", ptr_to_self)
    IN  IF header.type_id \in
            {"ArrayU8", "ArrayU16", "ArrayU32", "Dict", "Function", "List",
             "NumberObject", "Pair", "Partial", "Symbol", "Text", "Upvalue"}
            THEN [variant |-> header.type_id, val |-> untag(object_addr)]
        ELSE FatPanic

\* TaggedPtr::into_fat_ptr, reading headers from memory m.
into_fat_ptr(t, m) ==
    IF t = 0 THEN FatNil
    ELSE IF get_tag(t) = TAG_NUMBER THEN FatNumber(Sar(AsIsize(t), 2))
    ELSE IF get_tag(t) = TAG_SYMBOL THEN [variant |-> "Symbol", val |-> untag(t)]
    ELSE IF get_tag(t) = TAG_PAIR THEN [variant |-> "Pair", val |-> untag(t)]
    ELSE IF get_tag(t) = TAG_OBJECT
        THEN LET untyped_object_ptr == untag(t)
                 header_ptr == get_header("ObjectHeader", untyped_object_ptr)
                 header == ReadValue(m, header_ptr, ObjectHeaderSize, "header")
             IN  IF header.kind # "header" THEN FatUndefined
                 ELSE get_object_fatptr(header.val, header_ptr)
    ELSE FatPanic

\* impl From<FatPtr> for TaggedPtr
TaggedPtrFromFatPtr(ptr) ==
    IF ptr.variant = "Nil" THEN TaggedPtrNil
    ELSE IF ptr.variant = "Number" THEN TaggedPtrNumber(ptr.val)
    ELSE IF ptr.variant = "Pair" THEN TaggedPtrPair(ptr.val)
    ELSE IF ptr.variant = "Symbol" THEN TaggedPtrSymbol(ptr.val)
    ELSE TaggedPtrObject(ptr.val)

(***************************************************************************)
(* interpreter/src/symbolmap.rs and interpreter/src/symbol.rs              *)
(* The map is a function from the names interned so far to their Symbol    *)
(* pointers.  The result of a lookup is [status, ptr, map, arena, mem,     *)
(* took].                                                                  *)
(***************************************************************************)
\* size_of::<Symbol>(): name_ptr (*const u8) and name_len (usize).
SymbolSize == 16

SymbolMapNew == [n \in {} |-> 0]

\* The end of lookup with the new Symbol left out of the map.
InsertSymbol_left_out(map, name, r) ==
    IF r.status # "Ok"
        THEN [status |-> "Panic", ptr |-> 0, map |-> map,
              arena |-> r.blocks, mem |-> r.mem, took |-> r.took]
    ELSE [status |-> "Ok", ptr |-> r.ptr, map |-> map,
          arena |-> r.blocks, mem |-> r.mem, took |-> r.took]

\* The end of lookup, `r` being what self.arena.alloc(Symbol::new(&name))
\* returned: unwrap(), then the insertion into the map.
InsertSymbol(map, name, r) ==
    IF r.status # "Ok"
        THEN [status |-> "Panic", ptr |-> 0, map |-> map,
              arena |-> r.blocks, mem |-> r.mem, took |-> r.took]
    ELSE [status |-> "Ok", ptr |-> r.ptr,
          map |-> [n \in DOMAIN map \cup {name} |->
                      IF n = name THEN r.ptr ELSE map[n]],
          arena |-> r.blocks, mem |-> r.mem, took |-> r.took]

\* SymbolMap::lookup
SymbolMapLookup(map, arenaBlocks, m, name, os) ==
    IF name \in DOMAIN map
        THEN [status |-> "Ok", ptr |-> map[name], map |-> map,
              arena |-> arenaBlocks, mem |-> m, took |-> FALSE]
    ELSE InsertSymbol(map, name,
                      alloc(arenaBlocks, m, "ArenaHeader",
                            [type_id |-> "Symbol", size |-> SymbolSize], name, os))

(***************************************************************************)
(* The managed types: interpreter/src/headers.rs (TypeList and             *)
(* declare_allocobject!) with size_of::<T>() on the 64-bit target, and the *)
(* over-sized test type Big of stickyimmix/src/heap.rs.                    *)
(***************************************************************************)
size_of(type_id) ==
    CASE type_id = "ArrayOpcode" -> 32
      [] type_id = "ArrayU8" -> 32
      [] type_id = "ArrayU16" -> 32
      [] type_id = "ArrayU32" -> 32
      [] type_id = "ByteCode" -> 64
      [] type_id = "CallFrameList" -> 32
      [] type_id = "Dict" -> 24
      [] type_id = "Function" -> 40
      [] type_id = "InstructionStream" -> 16
      [] type_id = "List" -> 32
      [] type_id = "NumberObject" -> 32
      [] type_id = "Pair" -> 40
      [] type_id = "Partial" -> 32
      [] type_id = "Symbol" -> SymbolSize
      [] type_id = "Text" -> 16
      [] type_id = "Thread" -> 48
      [] type_id = "Upvalue" -> 16
      [] type_id = "Big" -> BLOCK_SIZE + 1

\* The types with an AllocObject<TypeList> implementation.
AllocObjectTypes ==
    {"ArrayOpcode", "ArrayU8", "ArrayU16", "ArrayU32", "ByteCode", "CallFrameList",
     "Dict", "Function", "InstructionStream", "List", "NumberObject", "Pair",
     "Partial", "Symbol", "Text", "Thread", "Upvalue"}

TypeOf(type_id) == [type_id |-> type_id, size |-> size_of(type_id)]

(***************************************************************************)
(* interpreter/src/rawarray.rs and interpreter/src/array.rs: RawArray<T>   *)
(* and Array<T>, T being i64 as in the tests of array.rs.  A RawArray is   *)
(* [capacity, ptr], ptr = 0 standing for None; an Array is                 *)
(* [length, data, borrow].                                                 *)
(***************************************************************************)
\* size_of::<T>() for T = i64
SizeOfItem == 8
\* Arrays start out at this size by default
DEFAULT_ARRAY_SIZE == 8
INTERIOR_ONLY == 0
EXPOSED_MUTABLY == 1

\* ArraySize::checked_add and ArraySize::checked_mul
checked_add(a, b) == [some |-> a + b < 2 ^ ArraySizeBits, val |-> a + b]
checked_mul(a, b) == [some |-> a * b < 2 ^ ArraySizeBits, val |-> a * b]

\* impl From<AllocError> for RuntimeError
RuntimeErrorFrom(status) ==
    CASE status = "OOM" -> "OutOfMemory"
      [] status = "BadRequest" -> "BadAllocationRequest"
      [] OTHER -> status

\* default_array_growth(capacity)
default_array_growth(capacity) ==
    IF capacity = 0 THEN [status |-> "Ok", val |-> DEFAULT_ARRAY_SIZE]
    ELSE IF checked_add(capacity, capacity \div 2).some
        THEN [status |-> "Ok", val |-> checked_add(capacity, capacity \div 2).val]
    ELSE [status |-> "BadAllocationRequest", val |-> 0]

\* RawArray::new()
RawArrayNew == [capacity |-> 0, ptr |-> 0]

\* What a RawArray function leaves: the array, the heap and memory.
RawRet(status, raw, blocks, m, took) ==
    [status |-> status, raw |-> raw, blocks |-> blocks, mem |-> m, took |-> took]

\* The end of with_capacity, r being what alloc_array returned.
WithCapacityOf(raw, capacity, r) ==
    IF r.status # "Ok"
        THEN RawRet(RuntimeErrorFrom(r.status), raw, r.blocks, r.mem, r.took)
    ELSE RawRet("Ok", [capacity |-> capacity, ptr |-> r.ptr], r.blocks, r.mem, r.took)

\* RawArray::<T>::with_capacity(mem, capacity), size_of_T being
\* size_of::<T>(); `raw` is what the caller keeps when the call fails.
RawArrayWithCapacity(size_of_T, raw, blocks, m, capacity, os) ==
    IF ~checked_mul(capacity, size_of_T).some
        THEN RawRet("BadAllocationRequest", raw, blocks, m, FALSE)
    ELSE WithCapacityOf(raw, capacity,
            alloc_array(blocks, m, "ObjectHeader",
                        checked_mul(capacity, size_of_T).val, os))

\* What the SizeOfItem bytes at `a` hold: an item, zero bytes, or bytes
\* nothing whole was written to.
ReadItem(m, a) ==
    IF ReadValue(m, a, SizeOfItem, "item").kind = "item"
        THEN ReadValue(m, a, SizeOfItem, "item")
    ELSE IF \A e \in Edges(m, a, SizeOfItem) : ReadByte(m, e).kind = "zero"
        THEN [kind |-> "zero", val |-> 0]
    ELSE Uninit

\* `*dest = *src` for the bytes of slot k.
CopySlot(m, old_ptr, new_ptr, k) ==
    MemWrite(m, new_ptr + k * SizeOfItem, SizeOfItem,
             ReadItem(m, old_ptr + k * SizeOfItem).kind,
             ReadItem(m, old_ptr + k * SizeOfItem).val)

\* The copy loop of resize over the first n slots of the two slices.
RECURSIVE CopySlots(_, _, _, _)
CopySlots(m, old_ptr, new_ptr, n) ==
    IF n = 0 THEN m
    ELSE CopySlot(CopySlots(m, old_ptr, new_ptr, n - 1), old_ptr, new_ptr, n - 1)

Min(a, b) == IF a < b THEN a ELSE b

\* The end of resize of an array that has storage, r being what alloc_array
\* returned for the new storage.
ResizeCopy(raw, new_capacity, r) ==
    IF r.status # "Ok"
        THEN RawRet(RuntimeErrorFrom(r.status), raw, r.blocks, r.mem, r.took)
    ELSE RawRet("Ok", [capacity |-> new_capacity, ptr |-> r.ptr], r.blocks,
                CopySlots(r.mem, raw.ptr, r.ptr, Min(raw.capacity, new_capacity)),
                r.took)

\* resize that allocates the new storage and copies nothing into it.
RawArrayResize_without_copy(raw, blocks, m, new_capacity, os) ==
    IF new_capacity = 0 THEN RawRet("Ok", RawArrayNew, blocks, m, FALSE)
    ELSE RawArrayWithCapacity(SizeOfItem, raw, blocks, m, new_capacity, os)

\* RawArray::resize(mem, new_capacity)
RawArrayResize(raw, blocks, m, new_capacity, os) ==
    IF new_capacity = 0 THEN RawRet("Ok", RawArrayNew, blocks, m, FALSE)
    ELSE IF raw.ptr # 0
        THEN IF ~checked_mul(new_capacity, SizeOfItem).some
                THEN RawRet("BadAllocationRequest", raw, blocks, m, FALSE)
             ELSE ResizeCopy(raw, new_capacity,
                    alloc_array(blocks, m, "ObjectHeader",
                                checked_mul(new_capacity, SizeOfItem).val, os))
    ELSE RawArrayWithCapacity(SizeOfItem, raw, blocks, m, new_capacity, os)

\* Container::new() for Array<T>
ArrayNew == [length |-> 0, data |-> RawArrayNew, borrow |-> INTERIOR_ONLY]

\* What an Array function returns and leaves: Ok(item) or Err(status), the
\* array, the heap and memory.
NoItem == [kind |-> "none", val |-> 0]
ArrayRet(status, item, arr, blocks, m, took) ==
    [status |-> status, item |-> item, array |-> arr, blocks |-> blocks,
     mem |-> m, took |-> took]

\* get_offset testing the index against the capacity.
get_offset_below_capacity(arr, index) ==
    IF index >= arr.data.capacity \/ arr.data.ptr = 0
        THEN [status |-> "BoundsError", ptr |-> 0]
    ELSE [status |-> "Ok", ptr |-> arr.data.ptr + index * SizeOfItem]

\* Array::get_offset(index)
get_offset(arr, index) ==
    IF index >= arr.length THEN [status |-> "BoundsError", ptr |-> 0]
    ELSE IF arr.data.ptr = 0 THEN [status |-> "BoundsError", ptr |-> 0]
    ELSE [status |-> "Ok", ptr |-> arr.data.ptr + index * SizeOfItem]

\* Array::write(guard, index, item), on the heap and memory given.
ArrayWrite(arr, blocks, m, took, index, item) ==
    IF get_offset(arr, index).status # "Ok"
        THEN ArrayRet(get_offset(arr, index).status, NoItem, arr, blocks, m, took)
    ELSE ArrayRet("Ok", NoItem, arr, blocks,
                  MemWrite(m, get_offset(arr, index).ptr, SizeOfItem, "item", item),
                  took)

\* Array::read(guard, index)
ArrayRead(arr, blocks, m, index) ==
    IF get_offset(arr, index).status # "Ok"
        THEN ArrayRet(get_offset(arr, index).status, NoItem, arr, blocks, m, FALSE)
    ELSE ArrayRet("Ok", ReadItem(m, get_offset(arr, index).ptr), arr, blocks, m, FALSE)

\* The growth step of push: the capacity to resize to.
PushCapacity(capacity) ==
    IF capacity = 0 THEN [status |-> "Ok", val |-> DEFAULT_ARRAY_SIZE]
    ELSE default_array_growth(capacity)

\* The end of push, r being what the resize returned (or the array's data as
\* it was when there was room).
PushItem(arr, length, r, item) ==
    IF r.status # "Ok" THEN ArrayRet(r.status, NoItem, arr, r.blocks, r.mem, r.took)
    ELSE ArrayWrite([arr EXCEPT !.data = r.raw, !.length = AsArraySize(length + 1)],
                    r.blocks, r.mem, r.took, length, item)

\* StackContainer::push(mem, item)
ArrayPush(arr, blocks, m, item, os) ==
    IF arr.borrow # INTERIOR_ONLY
        THEN ArrayRet("MutableBorrowError", NoItem, arr, blocks, m, FALSE)
    ELSE IF arr.length # arr.data.capacity
        THEN PushItem(arr, arr.length, RawRet("Ok", arr.data, blocks, m, FALSE), item)
    ELSE IF PushCapacity(arr.data.capacity).status # "Ok"
        THEN ArrayRet(PushCapacity(arr.data.capacity).status, NoItem, arr, blocks, m,
                      FALSE)
    ELSE PushItem(arr, arr.length,
                  RawArrayResize(arr.data, blocks, m,
                                 PushCapacity(arr.data.capacity).val, os),
                  item)

\* The end of pop and top, r being what the read of the last item returned.
TakeLast(r, length) ==
    IF r.status # "Ok" THEN r ELSE [r EXCEPT !.array.length = length]

\* StackContainer::pop(guard)
ArrayPop(arr, blocks, m) ==
    IF arr.borrow # INTERIOR_ONLY
        THEN ArrayRet("MutableBorrowError", NoItem, arr, blocks, m, FALSE)
    ELSE IF arr.length = 0
        THEN ArrayRet("BoundsError", NoItem, arr, blocks, m, FALSE)
    ELSE TakeLast(ArrayRead(arr, blocks, m, arr.length - 1), arr.length - 1)

\* StackContainer::top(guard)
ArrayTop(arr, blocks, m) ==
    IF arr.length = 0
        THEN ArrayRet("BoundsError", NoItem, arr, blocks, m, FALSE)
    ELSE ArrayRead(arr, blocks, m, arr.length - 1)

\* IndexedContainer::get(guard, index)
ArrayGet(arr, blocks, m, index) == ArrayRead(arr, blocks, m, index)

\* IndexedContainer::set(guard, index, item)
ArraySet(arr, blocks, m, index, item) ==
    ArrayWrite(arr, blocks, m, FALSE, index, item)

\* Container::with_capacity(mem, capacity) for Array<T>
ArrayWithCapacity(blocks, m, capacity, os) ==
    LET r == RawArrayWithCapacity(SizeOfItem, RawArrayNew, blocks, m, capacity, os)
    IN  ArrayRet(r.status, NoItem,
                 [length |-> 0, data |-> r.raw, borrow |-> INTERIOR_ONLY],
                 r.blocks, r.mem, r.took)

\* Container::clear(guard) for Array<T>
ArrayClear(arr, blocks, m) ==
    IF arr.borrow # INTERIOR_ONLY
        THEN ArrayRet("MutableBorrowError", NoItem, arr, blocks, m, FALSE)
    ELSE ArrayRet("Ok", NoItem, [arr EXCEPT !.length = 0], blocks, m, FALSE)

\* The loop of fill, `for index in length..size { self.write(mem, index,
\* item.clone())?; }`: the memory after the writes at the indexes from..to-1.
\* write tests the index against the length only, which is `size` by then.
RECURSIVE FillWrites(_, _, _, _, _)
FillWrites(arr, m, from, to, item) ==
    IF to <= from THEN m
    ELSE ArrayWrite(arr, <<>>, FillWrites(arr, m, from, to - 1, item), FALSE,
                    to - 1, item).mem

\* The end of fill, r being what the resize returned (or the array's data as
\* it was when the capacity was not below `size`): `self.data.set(array)`,
\* `self.length.set(size)` and the loop of writes.
FillItems(arr, size, r, item) ==
    IF r.status # "Ok" THEN ArrayRet(r.status, NoItem, arr, r.blocks, r.mem, r.took)
    ELSE IF arr.length < size /\ r.raw.ptr = 0
        THEN ArrayRet("BoundsError", NoItem, [arr EXCEPT !.data = r.raw, !.length = size],
                      r.blocks, r.mem, r.took)
    ELSE ArrayRet("Ok", NoItem, [arr EXCEPT !.data = r.raw, !.length = size], r.blocks,
                  FillWrites([arr EXCEPT !.data = r.raw, !.length = size], r.mem,
                             arr.length, size, item),
                  r.took)

\* FillContainer::fill(mem, size, item) for Array<T>: no test of the borrow
\* flag; one resize, to DEFAULT_ARRAY_SIZE or to default_array_growth of the
\* capacity, when `size > capacity`.
ArrayFill(arr, blocks, m, size, item, os) ==
    IF arr.length > size THEN ArrayRet("Ok", NoItem, arr, blocks, m, FALSE)
    ELSE IF ~(size > arr.data.capacity)
        THEN FillItems(arr, size, RawRet("Ok", arr.data, blocks, m, FALSE), item)
    ELSE IF PushCapacity(arr.data.capacity).status # "Ok"
        THEN ArrayRet(PushCapacity(arr.data.capacity).status, NoItem, arr, blocks, m,
                      FALSE)
    ELSE FillItems(arr, size,
                   RawArrayResize(arr.data, blocks, m,
                                  PushCapacity(arr.data.capacity).val, os),
                   item)

\* Array::as_slice(guard): the pointer and the length of the slice.
as_slice(arr) ==
    IF arr.data.ptr # 0 THEN [ptr |-> arr.data.ptr, len |-> arr.length]
    ELSE [ptr |-> 0, len |-> 0]

(***************************************************************************)
(* interpreter/src/dict.rs: Dict, a hash table with open addressing in a   *)
(* RawArray<DictItem>.  A key or a value is what the TaggedScopedPtr       *)
(* passed in holds (a symbol is known by its number in SymbolNames); an    *)
(* entry is [key, value, hash]; a Dict is [length, used_entries, data].    *)
(* u64 is scaled as usize is.                                              *)
(***************************************************************************)
\* size_of::<DictItem>(): two TaggedCellPtr and a u64
SizeOfDictItem == 3 * SizeOfUsize
TOMBSTONE == 1

\* DictItem::blank(): its bytes are all zero.
BlankEntry == [key |-> FatNil, value |-> FatNil, hash |-> 0]

\* The bytes of the names of the symbols used as keys: "foo" and "val_9".
SymbolNames == << <<102, 111, 111>>, <<118, 97, 108, 95, 57>> >>
SymbolKey(id) == [variant |-> "Symbol", val |-> id]

\* The low bits of the 64 bit FNV prime and offset basis
FnvPrime == 435
FnvOffsetBasis == 69346085 % UsizeModulus

BitXor(a, b) == BitOr(a, b) - BitAnd(a, b)

\* u64::wrapping_mul(a, b) for b below 2^9: the product of the two halves of
\* a, so that no intermediate value passes 2^31.
WrappingMul(a, b) ==
    ((((a \div 4096) * b) % (UsizeModulus \div 4096)) * 4096 + (a % 4096) * b)
        % UsizeModulus

\* FnvHasher::write: for each byte, xor then multiply
RECURSIVE FnvWrite(_, _)
FnvWrite(hash, bytes) ==
    IF bytes = <<>> THEN hash
    ELSE FnvWrite(WrappingMul(BitXor(hash, Head(bytes)), FnvPrime), Tail(bytes))

\* impl Hashable for Symbol with an FnvHasher: str::hash writes the bytes of
\* the name and then the byte 0xff.
SymbolHash(id) == FnvWrite(FnvOffsetBasis, Append(SymbolNames[id], 255))

\* hash_key(guard, key)
hash_key(key) ==
    CASE key.variant = "Symbol" -> [status |-> "Ok", hash |-> SymbolHash(key.val)]
      [] key.variant = "Number" -> [status |-> "Ok", hash |-> AsUsize(key.val)]
      [] OTHER -> [status |-> "UnhashableError", hash |-> 0]

\* The entry in slot `index` of the array at ptr: storage nothing was
\* written to since alloc_array zeroed it holds blank entries.
ReadEntry(m, ptr, index) ==
    LET v == ReadValue(m, ptr + index * SizeOfDictItem, SizeOfDictItem, "entry")
    IN  IF v.kind = "entry" THEN v.val ELSE BlankEntry

WriteEntry(m, ptr, index, entry) ==
    MemWrite(m, ptr + index * SizeOfDictItem, SizeOfDictItem, "entry", entry)

\* What find_entry returns: Ok(the entry in slot index), Err(status), a
\* panic, or nothing at all when the loop never ends ("Loops").
Found(index) == [status |-> "Ok", index |-> index]
NotFound(status) == [status |-> status, index |-> 0]

\* The loop of find_entry, at slot `index`, `tombstone` being the slot of
\* the first tombstone seen (-1: none) and `seen` the number of slots looked
\* at.  The entries do not change while the loop runs: once every slot was
\* looked at without a return, the loop goes round for ever.
\* The body of the loop, `entry` being the entry of slot `index`.
RECURSIVE Probe(_, _, _, _, _, _)
ProbeEntry(m, data, hash, index, tombstone, seen, entry) ==
    IF entry.hash = TOMBSTONE /\ entry.key = FatNil
        THEN Probe(m, data, hash, (index + 1) % data.capacity,
                   IF tombstone = 0 - 1 THEN index ELSE tombstone, seen + 1)
    ELSE IF entry.hash = hash THEN Found(index)
    ELSE IF entry.key = FatNil
        THEN Found(IF tombstone # 0 - 1 THEN tombstone ELSE index)
    ELSE Probe(m, data, hash, (index + 1) % data.capacity, tombstone, seen + 1)

Probe(m, data, hash, index, tombstone, seen) ==
    IF seen = data.capacity THEN NotFound("Loops")
    ELSE ProbeEntry(m, data, hash, index, tombstone, seen,
                    ReadEntry(m, data.ptr, index))

\* find_entry(guard, data, hash): `hash % 0` panics.
find_entry(m, data, hash) ==
    IF data.ptr = 0 THEN NotFound("BoundsError")
    ELSE IF data.capacity = 0 THEN NotFound("Panic")
    ELSE Probe(m, data, hash, hash % data.capacity, 0 - 1, 0)

\* fill_with_blank_entries(guard, data), the array having storage
RECURSIVE fill_with_blank_entries(_, _, _)
fill_with_blank_entries(m, data, n) ==
    IF n = 0 THEN m
    ELSE WriteEntry(fill_with_blank_entries(m, data, n - 1), data.ptr, n - 1, BlankEntry)

\* needs_to_grow(used_entries, capacity): the ratio of the two as f32 is
\* above 0.80; a division by zero gives infinity.
needs_to_grow(used_entries, capacity) ==
    IF capacity = 0 THEN used_entries > 0
    ELSE 5 * used_entries > 4 * capacity

\* A map with no key.
EmptyMap == [k \in {} |-> FatNil]

\* Container::new() for Dict
DictNew == [length |-> 0, used_entries |-> 0, data |-> RawArrayNew]

\* What a Dict function returns and leaves: Ok(value) or Err(status), the
\* Dict, the heap and memory.
DictRet(status, value, d, blocks, m, took) ==
    [status |-> status, value |-> value, dict |-> d, blocks |-> blocks,
     mem |-> m, took |-> took]

\* The end of with_capacity, r being what RawArray::with_capacity returned.
BlankDict(d, r) ==
    IF r.status # "Ok" THEN DictRet(r.status, FatNil, d, r.blocks, r.mem, r.took)
    ELSE DictRet("Ok", FatNil, [length |-> 0, used_entries |-> 0, data |-> r.raw],
                 r.blocks, fill_with_blank_entries(r.mem, r.raw, r.raw.capacity),
                 r.took)

\* Container::with_capacity(mem, capacity) for Dict
DictWithCapacity(blocks, m, capacity, os) ==
    BlankDict(DictNew,
              RawArrayWithCapacity(SizeOfDictItem, RawArrayNew, blocks, m, capacity, os))

\* Container::clear(mem) for Dict
DictClear(d, blocks, m) ==
    IF d.data.ptr = 0 THEN DictRet("BoundsError", FatNil, d, blocks, m, FALSE)
    ELSE DictRet("Ok", FatNil, [d EXCEPT !.length = 0, !.used_entries = 0], blocks,
                 fill_with_blank_entries(m, d.data, d.data.capacity), FALSE)

\* The body of the loop of grow_capacity for the entry of slot `index`, s
\* being [status, mem].
MoveEntry(s, new_data, entry, found) ==
    IF found.status # "Ok" THEN [s EXCEPT !.status = found.status]
    ELSE [s EXCEPT !.mem = WriteEntry(s.mem, new_data.ptr, found.index, entry)]

MoveFrom(s, new_data, entry) ==
    IF entry.key = FatNil THEN s
    ELSE MoveEntry(s, new_data, entry, find_entry(s.mem, new_data, entry.hash))

MoveSlot(s, data, new_data, index) ==
    IF s.status # "Ok" THEN s
    ELSE MoveFrom(s, new_data, ReadEntry(s.mem, data.ptr, index))

\* The loop of grow_capacity over the first n slots of the old array.
RECURSIVE MoveSlots(_, _, _, _)
MoveSlots(m, data, new_data, n) ==
    IF n = 0 \/ data.ptr = 0 THEN [status |-> "Ok", mem |-> m]
    ELSE MoveSlot(MoveSlots(m, data, new_data, n - 1), data, new_data, n - 1)

\* The end of grow_capacity, r being what RawArray::with_capacity returned
\* and moved what the loop left.
GrowTo(d, r, moved) ==
    IF moved.status # "Ok" THEN DictRet(moved.status, FatNil, d, r.blocks, moved.mem, r.took)
    ELSE DictRet("Ok", FatNil, [d EXCEPT !.data = r.raw], r.blocks, moved.mem, r.took)

GrowInto(d, r) ==
    IF r.status # "Ok" THEN DictRet(r.status, FatNil, d, r.blocks, r.mem, r.took)
    ELSE GrowTo(d, r, MoveSlots(r.mem, d.data, r.raw, d.data.capacity))

\* Dict::grow_capacity(mem)
grow_capacity(d, blocks, m, os) ==
    IF default_array_growth(d.data.capacity).status # "Ok"
        THEN DictRet(default_array_growth(d.data.capacity).status, FatNil, d, blocks, m,
                     FALSE)
    ELSE GrowInto(d, RawArrayWithCapacity(SizeOfDictItem, d.data, blocks, m,
                                          default_array_growth(d.data.capacity).val, os))

\* The counters of the Dict after assoc found `entry`.
Counted(d, entry) ==
    IF entry.key # FatNil THEN d
    ELSE IF entry.hash = 0
        THEN [d EXCEPT !.length = AsArraySize(d.length + 1),
                       !.used_entries = AsArraySize(d.used_entries + 1)]
    ELSE [d EXCEPT !.length = AsArraySize(d.length + 1)]

\* The end of assoc, g being what the growth left (or the Dict as it was)
\* and found what find_entry returned.
AssocEntry(g, found, key, value, hash) ==
    IF found.status # "Ok" THEN [g EXCEPT !.status = found.status]
    ELSE [g EXCEPT !.dict = Counted(g.dict, ReadEntry(g.mem, g.dict.data.ptr, found.index)),
                   !.mem = WriteEntry(g.mem, g.dict.data.ptr, found.index,
                                      [key |-> key, value |-> value, hash |-> hash])]

AssocIn(g, key, value, hash) ==
    IF g.status # "Ok" THEN g
    ELSE AssocEntry(g, find_entry(g.mem, g.dict.data, hash), key, value, hash)

\* assoc after hash_key returned h.
AssocHashed(d, blocks, m, key, value, os, h) ==
    IF h.status # "Ok" THEN DictRet(h.status, FatNil, d, blocks, m, FALSE)
    ELSE IF needs_to_grow(d.used_entries + 1, d.data.capacity)
        THEN AssocIn(grow_capacity(d, blocks, m, os), key, value, h.hash)
    ELSE AssocIn(DictRet("Ok", FatNil, d, blocks, m, FALSE), key, value, h.hash)

\* HashIndexedAnyContainer::assoc(mem, key, value) for Dict
DictAssoc(d, blocks, m, key, value, os) ==
    AssocHashed(d, blocks, m, key, value, os, hash_key(key))

\* The end of lookup, `entry` being the entry find_entry returned.
LookupEntry(d, blocks, m, entry) ==
    IF entry.key # FatNil THEN DictRet("Ok", entry.value, d, blocks, m, FALSE)
    ELSE DictRet("KeyError", FatNil, d, blocks, m, FALSE)

LookupFound(d, blocks, m, found) ==
    IF found.status # "Ok" THEN DictRet(found.status, FatNil, d, blocks, m, FALSE)
    ELSE LookupEntry(d, blocks, m, ReadEntry(m, d.data.ptr, found.index))

LookupHashed(d, blocks, m, h) ==
    IF h.status # "Ok" THEN DictRet(h.status, FatNil, d, blocks, m, FALSE)
    ELSE LookupFound(d, blocks, m, find_entry(m, d.data, h.hash))

\* HashIndexedAnyContainer::lookup(guard, key) for Dict
DictLookup(d, blocks, m, key) == LookupHashed(d, blocks, m, hash_key(key))

\* The end of dissoc, `entry` being the entry find_entry returned, in slot
\* `index`.
DissocEntry(d, blocks, m, index, entry) ==
    IF entry.key = FatNil THEN DictRet("KeyError", FatNil, d, blocks, m, FALSE)
    ELSE DictRet("Ok", entry.value, [d EXCEPT !.length = AsArraySize(d.length - 1)],
                 blocks,
                 WriteEntry(m, d.data.ptr, index,
                            [key |-> FatNil, value |-> entry.value, hash |-> TOMBSTONE]),
                 FALSE)

DissocFound(d, blocks, m, found) ==
    IF found.status # "Ok" THEN DictRet(found.status, FatNil, d, blocks, m, FALSE)
    ELSE DissocEntry(d, blocks, m, found.index, ReadEntry(m, d.data.ptr, found.index))

DissocHashed(d, blocks, m, h) ==
    IF h.status # "Ok" THEN DictRet(h.status, FatNil, d, blocks, m, FALSE)
    ELSE DissocFound(d, blocks, m, find_entry(m, d.data, h.hash))

\* HashIndexedAnyContainer::dissoc(guard, key) for Dict
DictDissoc(d, blocks, m, key) == DissocHashed(d, blocks, m, hash_key(key))

\* The end of exists: the status tells the boolean returned.
ExistsFound(d, blocks, m, found) ==
    IF found.status # "Ok" THEN DictRet(found.status, FatNil, d, blocks, m, FALSE)
    ELSE IF ReadEntry(m, d.data.ptr, found.index).key # FatNil
        THEN DictRet("Ok(true)", FatNil, d, blocks, m, FALSE)
    ELSE DictRet("Ok(false)", FatNil, d, blocks, m, FALSE)

ExistsHashed(d, blocks, m, h) ==
    IF h.status # "Ok" THEN DictRet(h.status, FatNil, d, blocks, m, FALSE)
    ELSE ExistsFound(d, blocks, m, find_entry(m, d.data, h.hash))

\* HashIndexedAnyContainer::exists(guard, key) for Dict
DictExists(d, blocks, m, key) == ExistsHashed(d, blocks, m, hash_key(key))

(***************************************************************************)
(* The state.                                                              *)
(*   heap     the BlockList of Memory's StickyImmixHeap<ObjectHeader>      *)
(*   arena    the BlockList of the SymbolMap's Arena                       *)
(*   syms     the SymbolMap's map                                          *)
(*   mem      process memory (the write log)                               *)
(*   osUsed   the block bases the operating system has handed out          *)
(*   guard    TRUE while a MutatorView exists (inside Memory::mutate)      *)
(*   mutates  the number of Memory::mutate calls made                      *)
(*   allocs   what the successful alloc/alloc_array calls returned         *)
(*   lookups  what the lookup_sym calls returned                           *)
(*   result   the last call and its outcome                                *)
(*   rt       the last FatPtr -> TaggedPtr -> FatPtr conversion            *)
(*   call     the last call of a function of the library: its name, its   *)
(*            arguments and what it returned                               *)
(*   array    an Array<T> the mutator holds                                *)
(*   pushed   the items a stack (a vector) holds after the calls made on   *)
(*            the array so far                                             *)
(*   ops      the number of calls made that change the array, or that make *)
(*            or change the Dict                                           *)
(*   dict     a Dict the mutator holds                                     *)
(*   live     the map from keys to values a map holds after the calls made *)
(*            on the Dict so far                                           *)
(*   bump     a BumpBlock used on its own, as bumpblock.rs's tests do: the *)
(*            block, the last inner_alloc call on it and what it returned, *)
(*            and the ranges the calls before it returned                  *)
(*   views    the MutatorViews alive, the innermost last, where            *)
(*            Memory::mutate is followed as the code has it                *)
(*   owned    the Blocks of blockalloc used on their own: the Blocks the   *)
(*            program holds, the pointers into_mut_ptr returned, the       *)
(*            regions the platform has allocated, how often each was       *)
(*            released since, and the number of calls made                 *)
(*   slices   the slices handed to the access_slice closures that are      *)
(*            running on the array, the innermost last                     *)
(***************************************************************************)
VARIABLES heap, arena, syms, mem, osUsed, guard, mutates, allocs, lookups, result, rt,
          call, array, pushed, ops, dict, live, bump, views, owned, slices

\* The state of the containers built on the heap.
containers == <<array, pushed, ops, dict, live, bump, views, owned,
                slices>>

vars == <<heap, arena, syms, mem, osUsed, guard, mutates, allocs, lookups, result, rt,
          call, containers>>

\* What the platform may answer to the next block request.
OsReplies == {OOM} \cup (OsBases \ osUsed)

NoResult == [op |-> "none", size |-> 0, status |-> "Ok", ptr |-> 0, word |-> 0]

\* No BumpBlock made yet, and no inner_alloc call.
NoInnerAlloc == [called |-> FALSE, bytes |-> 0, some |-> FALSE, ptr |-> 0, searches |-> 0]
NoBump ==
    [kind |-> "none", unit |-> 0,
     block |-> [base |-> 0, cursor |-> 0, limit |-> 0, marks |-> {}],
     last |-> NoInnerAlloc, returned |-> {}, calls |-> 0, count |-> 0]

\* No Block made yet.
NoBlocks ==
    [held |-> {}, raw |-> {}, live |-> {}, released |-> [p \in OsBases |-> 0],
     calls |-> 0]

NoRoundTrip == [done |-> FALSE, f |-> FatNil, t |-> 0, back |-> FatNil]

NoCall == [fn |-> "none", args |-> <<>>, ret |-> <<>>]

Panicked == result.status = "Panic"

Init ==
    /\ heap = BlockListNew
    /\ arena = BlockListNew
    /\ syms = SymbolMapNew
    /\ mem = <<>>
    /\ osUsed = {}
    /\ guard = FALSE
    /\ mutates = 0
    /\ allocs = <<>>
    /\ lookups = <<>>
    /\ result = NoResult
    /\ rt = NoRoundTrip
    /\ call = NoCall
    /\ array = ArrayNew
    /\ pushed = <<>>
    /\ ops = 0
    /\ dict = DictNew
    /\ live = EmptyMap
    /\ bump = NoBump
    /\ views = <<>>
    /\ owned = NoBlocks
    /\ slices = <<>>

\* Memory::mutate: the MutatorView is made and Mutator::run begins.
MutateEnter ==
    /\ ~Panicked
    /\ ~guard
    /\ mutates < MaxMutates
    /\ guard' = TRUE
    /\ mutates' = mutates + 1
    /\ UNCHANGED <<heap, arena, syms, mem, osUsed, allocs, lookups, result, rt,
                   call, containers>>

\* Memory::mutate: Mutator::run returns and the MutatorView is dropped.
MutateReturn ==
    /\ ~Panicked
    /\ guard
    /\ guard' = FALSE
    /\ UNCHANGED <<heap, arena, syms, mem, osUsed, mutates, allocs, lookups, result, rt,
                   call, containers>>

\* The record kept of a successful allocation.
AllocRecord(kind, type_id, size, r, object) ==
    [kind |-> kind, type_id |-> type_id, size |-> size, ptr |-> r.ptr,
     space |-> r.space, alloc_size |-> r.alloc_size, object |-> object]

\* The effect on the state of a heap allocation that returned r; alloc_tagged
\* converts the pointer: TaggedPtr::from(FatPtr::from(ptr)).
HeapEffect(op, kind, type_id, size, r, object, os) ==
    /\ heap' = r.blocks
    /\ mem' = r.mem
    /\ osUsed' = IF r.took THEN osUsed \cup {os} ELSE osUsed
    /\ allocs' = IF r.status = "Ok"
                    THEN Append(allocs, AllocRecord(kind, type_id, size, r, object))
                    ELSE allocs
    /\ result' = [op |-> op, size |-> size, status |-> r.status, ptr |-> r.ptr,
                  word |-> IF op = "alloc_tagged" /\ r.status = "Ok"
                            THEN TaggedPtrFromFatPtr(FatPtrFromRawPtr(type_id, r.ptr))
                            ELSE 0]
    /\ UNCHANGED <<arena, syms, guard, mutates, lookups, rt, call, containers>>

\* MutatorView::alloc::<T>(object) -> Heap::alloc -> StickyImmixHeap::alloc
Alloc(type_id, os) ==
    /\ ~Panicked
    /\ guard
    /\ Len(allocs) < MaxAllocs
    /\ HeapEffect("alloc", "object", type_id, size_of(type_id),
                  alloc(heap, mem, "ObjectHeader", TypeOf(type_id), Len(allocs) + 1, os),
                  Len(allocs) + 1, os)

\* MutatorView::alloc_tagged::<T>(object) -> Heap::alloc_tagged
AllocTagged(type_id, os) ==
    /\ ~Panicked
    /\ guard
    /\ Len(allocs) < MaxAllocs
    /\ type_id \in FatPtrPointerVariants
    /\ HeapEffect("alloc_tagged", "object", type_id, size_of(type_id),
                  alloc(heap, mem, "ObjectHeader", TypeOf(type_id), Len(allocs) + 1, os),
                  Len(allocs) + 1, os)

\* MutatorView::alloc_array(capacity) -> Heap::alloc_array
AllocArray(size_bytes, os) ==
    /\ ~Panicked
    /\ guard
    /\ Len(allocs) < MaxAllocs
    /\ HeapEffect("alloc_array", "array", "ArrayBackingBytes", size_bytes,
                  alloc_array(heap, mem, "ObjectHeader", size_bytes, os), 0, os)

\* The effect on the state of a symbol lookup that returned r;
\* Heap::lookup_sym converts the pointer: TaggedPtr::symbol(ptr).
SymEffect(name, r, os) ==
    /\ syms' = r.map
    /\ arena' = r.arena
    /\ mem' = r.mem
    /\ osUsed' = IF r.took THEN osUsed \cup {os} ELSE osUsed
    /\ lookups' = IF r.status = "Ok"
                    THEN Append(lookups, [name |-> name, ptr |-> r.ptr,
                                          word |-> TaggedPtrSymbol(r.ptr),
                                          call |-> mutates])
                    ELSE lookups
    /\ result' = [op |-> "lookup_sym", size |-> 0, status |-> r.status,
                  ptr |-> r.ptr,
                  word |-> IF r.status = "Ok" THEN TaggedPtrSymbol(r.ptr) ELSE 0]
    /\ UNCHANGED <<heap, guard, mutates, allocs, rt, call, containers>>

\* MutatorView::lookup_sym(name) -> Heap::lookup_sym -> SymbolMap::lookup
LookupSym(name, os) ==
    /\ ~Panicked
    /\ guard
    /\ Len(lookups) < MaxLookups
    /\ SymEffect(name, SymbolMapLookup(syms, arena, mem, name, os), os)

\* TaggedPtr::from(f) followed by TaggedPtr::into_fat_ptr.
RoundTrip(f) ==
    /\ ~Panicked
    /\ LET t == TaggedPtrFromFatPtr(f)
       IN  rt' = [done |-> TRUE, f |-> f, t |-> t, back |-> into_fat_ptr(t, mem)]
    /\ UNCHANGED <<heap, arena, syms, mem, osUsed, guard, mutates, allocs, lookups,
                   result, call, containers>>

\* The types the heap's clients allocate in the model.
HeapTypes == {"Dict", "Big"}
\* The array sizes the heap's clients ask for in the model: a small array of
\* a size that is no multiple of the word size, half a block, a whole block,
\* one byte more than a whole block, and the largest ArraySize.
ArraySizes == {5, (BLOCK_CAPACITY \div 2) - ObjectHeaderSize,
               BLOCK_CAPACITY - ObjectHeaderSize,
               BLOCK_CAPACITY - ObjectHeaderSize + 1, MAX_ALLOC_SIZE}
\* The inline numbers converted in the model: zero, small numbers of either
\* sign, the numbers at the edge of what fits in a word less two tag bits,
\* and the extremes of isize.
NumberInputs ==
    {0, 1, 0 - 1, 0 - 3, (2 ^ (WordBits - 3)) - 1, 2 ^ (WordBits - 3),
     0 - (2 ^ (WordBits - 3)), 0 - (2 ^ (WordBits - 3)) - 1, IsizeMax, IsizeMin}
\* The symbol names looked up in the model.
Names == {"foo", "bar", "foobar"}

\* The object heap: allocation of objects and arrays inside Memory::mutate.
Next ==
    \/ MutateEnter
    \/ MutateReturn
    \/ \E type_id \in HeapTypes, os \in OsReplies : Alloc(type_id, os)
    \/ \E type_id \in HeapTypes \cap FatPtrPointerVariants, os \in OsReplies :
            AllocTagged(type_id, os)
    \/ \E size_bytes \in ArraySizes, os \in OsReplies : AllocArray(size_bytes, os)

Spec == Init /\ [][Next]_vars

\* Memory::mutate as the code has it: `pub fn mutate(&self, m, input)` takes a
\* shared reference to the Memory and tests nothing before it makes the
\* MutatorView, so the call can also be made by a Mutator::run that is given
\* the &Memory (in its struct or as its input) while that run is executing.
\* Each view is kept with the number of its call and the number of
\* allocations made before it.
Mutate ==
    /\ ~Panicked
    /\ mutates < MaxMutates
    /\ guard' = TRUE
    /\ mutates' = mutates + 1
    /\ views' = Append(views, [call |-> mutates + 1, allocs |-> Len(allocs)])
    /\ UNCHANGED <<heap, arena, syms, mem, osUsed, allocs, lookups, result, rt,
                   call, array, pushed, ops, dict, live, bump, owned, slices>>

\* Memory::mutate: the innermost Mutator::run returns and its MutatorView is
\* dropped.
RunReturn ==
    /\ ~Panicked
    /\ views # <<>>
    /\ views' = SubSeq(views, 1, Len(views) - 1)
    /\ guard' = (Len(views) > 1)
    /\ UNCHANGED <<heap, arena, syms, mem, osUsed, mutates, allocs, lookups, result,
                   rt, call, array, pushed, ops, dict, live, bump, owned, slices>>

\* Memory::mutate calls wherever the code accepts them, and allocations
\* through the MutatorViews.
NextMutate ==
    \/ Mutate
    \/ RunReturn
    \/ \E type_id \in HeapTypes, os \in OsReplies : Alloc(type_id, os)

SpecMutate == Init /\ [][NextMutate]_vars

\* The symbol map: symbol lookups inside Memory::mutate.
NextSym ==
    \/ MutateEnter
    \/ MutateReturn
    \/ \E name \in Names, os \in OsReplies : LookupSym(name, os)

SpecSym == Init /\ [][NextSym]_vars

\* Tagged pointers: Mutator::run has begun on a new Memory; objects of every
\* type with a FatPtr variant are allocated, a symbol is interned, and FatPtr
\* values are converted to TaggedPtr and back.
InitPtr ==
    /\ heap = BlockListNew
    /\ arena = BlockListNew
    /\ syms = SymbolMapNew
    /\ mem = <<>>
    /\ osUsed = {}
    /\ guard = TRUE
    /\ mutates = 1
    /\ allocs = <<>>
    /\ lookups = <<>>
    /\ result = NoResult
    /\ rt = NoRoundTrip
    /\ call = NoCall
    /\ array = ArrayNew
    /\ pushed = <<>>
    /\ ops = 0
    /\ dict = DictNew
    /\ live = EmptyMap
    /\ bump = NoBump
    /\ views = <<>>
    /\ owned = NoBlocks
    /\ slices = <<>>

\* The FatPtr values the program holds: Nil, the inline numbers, the objects
\* allocated with a type that has a FatPtr variant, and the interned symbols.
FatPtrs ==
    {FatNil}
    \cup { FatNumber(n) : n \in NumberInputs }
    \cup { FatPtrFromRawPtr(allocs[i].type_id, allocs[i].ptr) :
                i \in { k \in DOMAIN allocs :
                            allocs[k].type_id \in FatPtrPointerVariants } }
    \cup { FatPtrFromRawPtr("Symbol", lookups[i].ptr) : i \in DOMAIN lookups }

NextPtr ==
    \/ \E type_id \in FatPtrPointerVariants, os \in OsReplies :
            Len(allocs) < MaxPtrObjects /\ AllocTagged(type_id, os)
    \/ \E os \in OsReplies : lookups = <<>> /\ LookupSym("foo", os)
    \/ \E f \in FatPtrs : RoundTrip(f)

SpecPtr == InitPtr /\ [][NextPtr]_vars

(***************************************************************************)
(* Calls of single functions of the library, on arguments drawn from the   *)
(* sets below; `call` records the call and what it returned.               *)
(***************************************************************************)
\* A call of a function alone is made once, on its own: what the functions
\* return depends on their arguments only.
NoCallYet == call.fn = "none"
\* It leaves the heaps of the interpreter as they are.
CallAlone ==
    UNCHANGED <<heap, arena, syms, mem, osUsed, guard, mutates, allocs, lookups,
                result, rt, containers>>

\* The block sizes asked for: zero, powers of two below and from the size of
\* a machine word, and sizes that are no power of two.
BlockSizes ==
    {0, 1, 2, 4, SizeOfUsize, 2 * SizeOfUsize, 3 * SizeOfUsize, 999, 1000, 4096,
     4097, BLOCK_SIZE - 1, BLOCK_SIZE, BLOCK_SIZE + LINE_SIZE, 2 * BLOCK_SIZE,
     3 * BLOCK_SIZE}
\* The places the platform has free when asked for a block, or OOM.
OsPlaces ==
    {OOM, SizeOfUsize, 3 * SizeOfUsize, 4096 + SizeOfUsize, BLOCK_SIZE,
     BLOCK_SIZE + SizeOfUsize, 3 * BLOCK_SIZE + (2 * SizeOfUsize)}

\* Block::new(size)
BlockNewCall(size, os, overflow_checks) ==
    /\ NoCallYet
    /\ call' = [fn |-> "Block::new", args |-> <<size, os, overflow_checks>>,
                ret |-> BlockNew(size, os, overflow_checks)]
    /\ CallAlone

\* The sizes classified: zero, the sizes up to a line and just above it, the
\* sizes around the capacity of a block, and the sizes around the largest
\* allocation.
ObjectSizes ==
    (0..(LINE_SIZE + SizeOfUsize))
    \cup ((BLOCK_CAPACITY - SizeOfUsize)..(BLOCK_CAPACITY + SizeOfUsize))
    \cup {BLOCK_SIZE, MAX_ALLOC_SIZE - 1, MAX_ALLOC_SIZE, MAX_ALLOC_SIZE + 1,
          2 * MAX_ALLOC_SIZE}
\* The array sizes asked of a new heap: small ones, and the sizes that with
\* the header come to about a line or to about the capacity of a block.
PayloadSizes ==
    {1, 5}
    \cup ((LINE_SIZE - (3 * SizeOfUsize))..(LINE_SIZE + 1))
    \cup ((BLOCK_CAPACITY - (3 * SizeOfUsize))..(BLOCK_CAPACITY - ObjectHeaderSize))

\* SizeClass::get_for_size(object_size)
GetForSizeCall(object_size) ==
    /\ NoCallYet
    /\ call' = [fn |-> "get_for_size", args |-> <<object_size>>,
                ret |-> get_for_size(object_size)]
    /\ CallAlone

\* alloc_array(size_bytes) on a new StickyImmixHeap<ObjectHeader>
NewHeapAllocArrayCall(size_bytes, os) ==
    /\ NoCallYet
    /\ call' = [fn |-> "alloc_array", args |-> <<size_bytes, os>>,
                ret |-> alloc_array(BlockListNew, <<>>, "ObjectHeader", size_bytes, os)]
    /\ CallAlone

\* The line marks searched: none, every other line, the lines of
\* test_find_next_hole, of test_find_next_hole_at_line_zero and of
\* test_find_next_hole_at_block_end, and marks leaving several runs of
\* unmarked lines of different lengths, above line 0 marked and unmarked,
\* and marks leaving two short runs only.
EvenLines == {i \in 0..(LINE_COUNT - 1) : i % 2 = 0}
FewFreeLines == (0..(LINE_COUNT - 1)) \ {10, 11, 20, 21, 22}
MarkSets ==
    {{}, EvenLines, {0, 1, 2, 4, 10}, {3, 4, 5}, (LINE_COUNT \div 2)..(LINE_COUNT - 1),
     {1, 7}, {0, 5, 6, 9, 200}, FewFreeLines}
\* Where the searches start: the end of the object area, the lines the
\* tests start from, and offsets inside a line.
StartingAts ==
    {BLOCK_CAPACITY, 10 * LINE_SIZE, 3 * LINE_SIZE, 10 * LINE_SIZE + SizeOfUsize,
     BLOCK_CAPACITY - 1}
\* The sizes asked of a hole search and of a block.
HoleSizes ==
    {0, 1, SizeOfUsize, LINE_SIZE - 1, LINE_SIZE, LINE_SIZE + 1, 2 * LINE_SIZE,
     3 * LINE_SIZE, 4 * LINE_SIZE, 5 * LINE_SIZE, BLOCK_CAPACITY - LINE_SIZE,
     BLOCK_CAPACITY - 1, BLOCK_CAPACITY, BLOCK_CAPACITY + 1, BLOCK_SIZE,
     MAX_ALLOC_SIZE}

\* BlockMeta::find_next_available_hole(starting_at, alloc_size) on a block
\* with the line marks `marks`
FindHoleCall(marks, starting_at, alloc_size) ==
    /\ NoCallYet
    /\ call' = [fn |-> "find_next_available_hole",
                args |-> <<marks, starting_at, alloc_size>>,
                ret |-> find_next_available_hole(marks, starting_at, alloc_size)]
    /\ CallAlone

\* A new block after `b.meta.mark_line(i)` for the lines of `marks` and
\* `b.limit = b.cursor` (the block is recycled).
RecycledBlock(block, marks) == [block EXCEPT !.marks = marks, !.limit = block.cursor]

\* BumpBlock::inner_alloc(alloc_size) on a recycled block with the line
\* marks `marks`
RecycledInnerAllocCall(marks, alloc_size, os) ==
    /\ NoCallYet
    /\ BumpBlockNew(os).status = "Ok"
    /\ call' = [fn |-> "inner_alloc", args |-> <<marks, alloc_size, os>>,
                ret |-> inner_alloc(RecycledBlock(BumpBlockNew(os).block, marks),
                                    alloc_size)]
    /\ CallAlone

\* The type ids a header can be written with: those of the types with an
\* AllocObject implementation, by alloc, and ArrayBackingBytes, by
\* alloc_array.
HeaderTypeIds == AllocObjectTypes \cup {"ArrayBackingBytes"}
\* The allocation that writes a header with the type id: alloc of an object
\* of that type, or alloc_array of a few bytes, on a new heap.
AllocOfType(type_id, os) ==
    IF type_id = "ArrayBackingBytes"
        THEN alloc_array(BlockListNew, <<>>, "ObjectHeader", 2 * SizeOfUsize, os)
    ELSE alloc(BlockListNew, <<>>, "ObjectHeader", TypeOf(type_id), 1, os)
\* The header of the object allocated, read back from memory.
HeaderOf(a) == ReadValue(a.mem, get_header("ObjectHeader", a.ptr), ObjectHeaderSize, "header")
\* header.get_object_fatptr() on the header of the object allocated, and
\* TaggedPtr::into_fat_ptr of TaggedPtr::object(ptr) when the type has a
\* FatPtr variant, as Heap::alloc_tagged makes it.
FatPtrOfAllocated(type_id, a) ==
    IF a.status # "Ok"
        THEN [status |-> a.status, object |-> 0, fat |-> FatNil, tagged |-> FALSE,
              decoded |-> FatNil]
    ELSE [status |-> "Ok", object |-> a.ptr,
          fat |-> get_object_fatptr(HeaderOf(a).val, get_header("ObjectHeader", a.ptr)),
          tagged |-> type_id \in FatPtrPointerVariants,
          decoded |-> IF type_id \in FatPtrPointerVariants
                        THEN into_fat_ptr(
                                TaggedPtrFromFatPtr(FatPtrFromRawPtr(type_id, a.ptr)),
                                a.mem)
                      ELSE FatNil]

\* An object of the type is allocated on a new heap and the FatPtr to it is
\* recovered from its header.
GetObjectFatPtrCall(type_id, os) ==
    /\ NoCallYet
    /\ call' = [fn |-> "get_object_fatptr", args |-> <<type_id, os>>,
                ret |-> FatPtrOfAllocated(type_id, AllocOfType(type_id, os))]
    /\ CallAlone

\* interpreter/src/safeptr.rs: ScopedPtr<'guard, T> { value: &'guard T }.
\* ScopedPtr::new(guard, value): `value` is the address the reference holds.
ScopedPtrNew(value) == [value |-> value]

\* A type T: Sized + PartialEq whose `==` compares values, as that of usize
\* does: the type of the objects heap.rs test_many_obs allocates.
UsizeObject == [type_id |-> "Usizeish", size |-> SizeOfUsize]
\* <T as PartialEq>::eq(a, b) for that type: both objects are read and
\* their values compared.
TypeEq(m, T, a, b) ==
    ReadValue(m, a, T.size, "object").val = ReadValue(m, b, T.size, "object").val

\* impl PartialEq for ScopedPtr<'guard, T>: `self.value == rhs.value`, the
\* `==` of two `&T`, which is that of T on what they refer to.
ScopedPtrEq(m, T, self, rhs) == TypeEq(m, T, self.value, rhs.value)

\* The values the objects compared hold.
ObjectValues == {1, 2}

\* The second of two allocations on a new heap, `first` being what the first
\* returned.
SecondAlloc(first, T, object, os) ==
    alloc(first.blocks, first.mem, "ObjectHeader", T, object, os)
\* a == b for ScopedPtrs a and b to the i-th and the j-th of the two objects.
EqOfObjects(first, second, T, i, j) ==
    [fn |-> "ScopedPtr::eq",
     args |-> <<IF i = 1 THEN first.ptr ELSE second.ptr,
                IF j = 1 THEN first.ptr ELSE second.ptr>>,
     ret |-> ScopedPtrEq(second.mem, T,
                         ScopedPtrNew(IF i = 1 THEN first.ptr ELSE second.ptr),
                         ScopedPtrNew(IF j = 1 THEN first.ptr ELSE second.ptr))]
EqAfterFirst(first, T, w, i, j, os) ==
    IF first.status # "Ok" THEN NoCall
    ELSE EqOfObjects(first, SecondAlloc(first, T, w, os), T, i, j)

\* impl PartialEq for FatPtr: the match has an arm for Nil, Pair, Symbol,
\* Number and NumberObject, the pointers compared by RawPtr's `==`
\* (`self.ptr == other.ptr`), and `_ => false`.
FatPtrEq(self, other) ==
    CASE self.variant = "Nil" /\ other.variant = "Nil" -> TRUE
      [] self.variant = "Pair" /\ other.variant = "Pair" -> self.val = other.val
      [] self.variant = "Symbol" /\ other.variant = "Symbol" -> self.val = other.val
      [] self.variant = "Number" /\ other.variant = "Number" -> self.val = other.val
      [] self.variant = "NumberObject" /\ other.variant = "NumberObject" ->
            self.val = other.val
      [] OTHER -> FALSE

\* The inline numbers compared.
EqNumbers == {0, 1, 0 - 1}
\* The FatPtrs to two objects of the type allocated on a new heap.
FatPtrsTo(type_id, os) ==
    { FatPtrFromRawPtr(type_id, a.ptr) :
        a \in { alloc(BlockListNew, <<>>, "ObjectHeader", TypeOf(type_id), 1, os),
                SecondAlloc(alloc(BlockListNew, <<>>, "ObjectHeader", TypeOf(type_id), 1, os),
                            TypeOf(type_id), 2, os) } }
\* The FatPtr values compared: Nil, inline numbers and, for every pointer
\* variant, pointers to two objects.
EqOperands(os) ==
    {FatNil} \cup { FatNumber(n) : n \in EqNumbers }
             \cup UNION { FatPtrsTo(type_id, os) : type_id \in FatPtrPointerVariants }

\* self == other for two FatPtr values
FatPtrEqCall(self, other) ==
    /\ NoCallYet
    /\ call' = [fn |-> "FatPtr::eq", args |-> <<self, other>>, ret |-> FatPtrEq(self, other)]
    /\ CallAlone

\* Inside Memory::mutate on a new Memory: two objects holding v and w are
\* allocated, and ScopedPtrs to the i-th and the j-th of them are compared.
ScopedPtrEqCall(v, w, i, j, os) ==
    /\ NoCallYet
    /\ call' = EqAfterFirst(alloc(BlockListNew, <<>>, "ObjectHeader", UsizeObject, v, os),
                            UsizeObject, w, i, j, os)
    /\ CallAlone

NextCalls ==
    \/ \E size \in BlockSizes, os \in OsPlaces, overflow_checks \in BOOLEAN :
            BlockNewCall(size, os, overflow_checks)
    \/ \E object_size \in ObjectSizes : GetForSizeCall(object_size)
    \/ \E size_bytes \in PayloadSizes, os \in OsBases :
            NewHeapAllocArrayCall(size_bytes, os)
    \/ \E marks \in MarkSets, starting_at \in StartingAts, alloc_size \in HoleSizes :
            FindHoleCall(marks, starting_at, alloc_size)
    \/ \E marks \in MarkSets, alloc_size \in HoleSizes, os \in OsBases :
            RecycledInnerAllocCall(marks, alloc_size, os)
    \/ \E v \in ObjectValues, w \in ObjectValues, i \in 1..2, j \in 1..2, os \in OsBases :
            ScopedPtrEqCall(v, w, i, j, os)
    \/ \E type_id \in HeaderTypeIds, os \in OsBases : GetObjectFatPtrCall(type_id, os)
    \/ \E os \in OsBases : \E self \in EqOperands(os), other \in EqOperands(os) :
            FatPtrEqCall(self, other)

SpecCalls == Init /\ [][NextCalls]_vars

(***************************************************************************)
(* blockalloc/src/lib.rs: Blocks made, dropped, consumed by into_mut_ptr   *)
(* and put together again by from_raw_parts.  A region the platform has    *)
(* released may be handed out again by it.                                 *)
(***************************************************************************)
\* The sizes of the Blocks made.
OwnedBlockSizes == {4096, BLOCK_SIZE}

\* Every call leaves the heaps of the interpreter as they are.
BlocksAlone ==
    UNCHANGED <<heap, arena, syms, mem, osUsed, guard, mutates, allocs, lookups,
                result, rt, array, pushed, ops, dict, live, bump, views, slices>>

\* internal::dealloc_block(ptr, size) on unix: free(ptr).
dealloc_block(o, ptr) ==
    [o EXCEPT !.live = o.live \ {ptr}, !.released[ptr] = o.released[ptr] + 1]

\* impl Drop for Block: `internal::dealloc_block(self.ptr, self.size)`, run
\* when a Block value goes out of scope.
BlockDrop(o, self) ==
    dealloc_block([o EXCEPT !.held = o.held \ {self}], self.ptr)

\* What Block::new(size) leaves, r being what it returned.
AfterBlockNew(o, r) ==
    IF r.status # "Ok" THEN [o EXCEPT !.calls = o.calls + 1]
    ELSE [o EXCEPT !.held = o.held \cup {[ptr |-> r.ptr, size |-> r.size]},
                   !.live = o.live \cup {r.ptr},
                   !.released[r.ptr] = 0,
                   !.calls = o.calls + 1]

\* let block = Block::new(size)?
OwnedBlockNew(size, os) ==
    /\ owned.calls < MaxBlockCalls
    /\ os \notin owned.live
    /\ call' = [fn |-> "Block::new", args |-> <<size, os>>,
                ret |-> BlockNew(size, os, FALSE)]
    /\ owned' = AfterBlockNew(owned, BlockNew(size, os, FALSE))
    /\ BlocksAlone

\* A Block the program holds goes out of scope.
OwnedBlockDrop(self) ==
    /\ owned.calls < MaxBlockCalls
    /\ self \in owned.held
    /\ call' = [fn |-> "Block::drop", args |-> <<self>>, ret |-> <<>>]
    /\ owned' = [BlockDrop(owned, self) EXCEPT !.calls = owned.calls + 1]
    /\ BlocksAlone

\* Block::into_mut_ptr(self): `self.ptr` is copied out as the value returned
\* (BlockPtr is Copy) and `self`, taken by value, goes out of scope when the
\* function returns: Block implements Drop, and nothing (no mem::forget, no
\* ManuallyDrop) keeps Drop::drop from running.
into_mut_ptr(o, self) ==
    [ret |-> self.ptr,
     owned |-> LET d == BlockDrop(o, self)
               IN  [d EXCEPT !.raw = d.raw \cup {self.ptr}]]

\* let ptr = block.into_mut_ptr()
IntoMutPtr(self) ==
    /\ owned.calls < MaxBlockCalls
    /\ self \in owned.held
    /\ call' = [fn |-> "Block::into_mut_ptr", args |-> <<self>>,
                ret |-> into_mut_ptr(owned, self).ret]
    /\ owned' = [into_mut_ptr(owned, self).owned EXCEPT !.calls = owned.calls + 1]
    /\ BlocksAlone

\* unsafe Block::from_raw_parts(ptr, size), on a pointer into_mut_ptr
\* returned and the size of that Block.
FromRawParts(ptr, size) ==
    /\ owned.calls < MaxBlockCalls
    /\ ptr \in owned.raw
    /\ [ptr |-> ptr, size |-> size] \notin owned.held
    /\ call' = [fn |-> "Block::from_raw_parts", args |-> <<ptr, size>>,
                ret |-> [ptr |-> ptr, size |-> size]]
    /\ owned' = [owned EXCEPT !.held = owned.held \cup {[ptr |-> ptr, size |-> size]},
                              !.calls = owned.calls + 1]
    /\ BlocksAlone

NextBlock ==
    \/ \E size \in OwnedBlockSizes, os \in OsBases \cup {OOM} : OwnedBlockNew(size, os)
    \/ \E self \in owned.held : OwnedBlockDrop(self)
    \/ \E self \in owned.held : IntoMutPtr(self)
    \/ \E ptr \in owned.raw, size \in OwnedBlockSizes : FromRawParts(ptr, size)

SpecBlock == Init /\ [][NextBlock]_vars

(***************************************************************************)
(* An Array<T> used inside Memory::mutate, as in the tests of array.rs.    *)
(* Array<T> never looks into an item, so each call stores a new number:    *)
(* every stored item can be told from every other.                         *)
(***************************************************************************)
\* The effect on the state of a call on the array that returned r.
ArrayEffect(fn, args, r, os) ==
    /\ array' = r.array
    /\ heap' = r.blocks
    /\ mem' = r.mem
    /\ osUsed' = IF r.took THEN osUsed \cup {os} ELSE osUsed
    /\ call' = [fn |-> fn, args |-> args, ret |-> [status |-> r.status, item |-> r.item]]
    /\ UNCHANGED <<arena, syms, guard, mutates, allocs, lookups, result, rt, dict, live,
                   bump, views, owned, slices>>

\* What a stack holds after a call that returned `status`.
AfterPush(stack, status, item) == IF status = "Ok" THEN Append(stack, item) ELSE stack
AfterPop(stack, status) ==
    IF status = "Ok" /\ stack # <<>> THEN SubSeq(stack, 1, Len(stack) - 1) ELSE stack
AfterSet(stack, status, index, item) ==
    IF status = "Ok" /\ index + 1 \in DOMAIN stack
        THEN [stack EXCEPT ![index + 1] = item]
    ELSE stack

PushDone(r, item, os) ==
    /\ ArrayEffect("push", <<item>>, r, os)
    /\ pushed' = AfterPush(pushed, r.status, item)
    /\ ops' = ops + 1

\* array.push(view, item)
Push(max, os) ==
    /\ guard
    /\ ops < max
    /\ PushDone(ArrayPush(array, heap, mem, ops + 1, os), ops + 1, os)

PopDone(r) ==
    /\ ArrayEffect("pop", <<>>, r, OOM)
    /\ pushed' = AfterPop(pushed, r.status)
    /\ ops' = ops + 1

\* array.pop(view)
Pop(max) ==
    /\ guard
    /\ ops < max
    /\ PopDone(ArrayPop(array, heap, mem))

\* array.top(view)
Top ==
    /\ guard
    /\ ArrayEffect("top", <<>>, ArrayTop(array, heap, mem), OOM)
    /\ UNCHANGED <<pushed, ops>>

\* array.get(view, index)
Get(index) ==
    /\ guard
    /\ ArrayEffect("get", <<index>>, ArrayGet(array, heap, mem, index), OOM)
    /\ UNCHANGED <<pushed, ops>>

SetDone(r, index, item) ==
    /\ ArrayEffect("set", <<index, item>>, r, OOM)
    /\ pushed' = AfterSet(pushed, r.status, index, item)
    /\ ops' = ops + 1

\* array.set(view, index, item)
Set(max, index) ==
    /\ guard
    /\ ops < max
    /\ SetDone(ArraySet(array, heap, mem, index, ops + 1), index, ops + 1)

\* The indexes asked for: in a short array, past its length and below its
\* capacity, the last below DEFAULT_ARRAY_SIZE, the first past it, and the
\* largest ArraySize.
Indexes == {0, 2, DEFAULT_ARRAY_SIZE - 1, DEFAULT_ARRAY_SIZE, 2 ^ ArraySizeBits - 1}

NextStack ==
    \/ MutateEnter
    \/ \E os \in OsReplies : Push(MaxStackOps, os)
    \/ Pop(MaxStackOps)
    \/ Top

SpecStack == Init /\ [][NextStack]_vars

NextIndexed ==
    \/ MutateEnter
    \/ \E os \in OsReplies : Push(MaxIndexedOps, os)
    \/ Pop(MaxIndexedOps)
    \/ \E index \in Indexes : Get(index)
    \/ \E index \in Indexes : Set(MaxIndexedOps, index)

SpecIndexed == Init /\ [][NextIndexed]_vars

(***************************************************************************)
(* An Array<T> made, pushed to, popped from, filled and cleared, also from *)
(* inside the closures access_slice runs: a closure that holds the array   *)
(* can make any call on it until it returns.                               *)
(***************************************************************************)
\* The capacities arrays are made with, and the sizes they are filled to:
\* below, at and above DEFAULT_ARRAY_SIZE and its growth.
ArrayCapacities == {0, 2, DEFAULT_ARRAY_SIZE}
FillSizes == {0, 2, DEFAULT_ARRAY_SIZE, DEFAULT_ARRAY_SIZE + 1,
              DEFAULT_ARRAY_SIZE + (DEFAULT_ARRAY_SIZE \div 2) + 1}

\* What a stack holds after fill and clear.
AfterFill(stack, status, size, item) ==
    IF status = "Ok" /\ Len(stack) < size
        THEN stack \o [i \in 1..(size - Len(stack)) |-> item]
    ELSE stack
AfterClear(stack, status) == IF status = "Ok" THEN <<>> ELSE stack

\* let array = Array::with_capacity(view, capacity)?
WithCapacity(capacity, os) ==
    /\ guard
    /\ ops = 0
    /\ call = NoCall
    /\ ArrayEffect("with_capacity", <<capacity>>,
                   ArrayWithCapacity(heap, mem, capacity, os), os)
    /\ UNCHANGED <<pushed, ops>>

FillDone(r, size, item, os) ==
    /\ ArrayEffect("fill", <<size, item>>, r, os)
    /\ pushed' = AfterFill(pushed, r.status, size, item)
    /\ ops' = ops + 1

\* array.fill(view, size, item)
Fill(size, os) ==
    /\ guard
    /\ ops < MaxArrayOps
    /\ FillDone(ArrayFill(array, heap, mem, size, ops + 1, os), size, ops + 1, os)

ClearDone(r) ==
    /\ ArrayEffect("clear", <<>>, r, OOM)
    /\ pushed' = AfterClear(pushed, r.status)
    /\ ops' = ops + 1

\* array.clear(view)
ClearArray ==
    /\ guard
    /\ ops < MaxArrayOps
    /\ ClearDone(ArrayClear(array, heap, mem))

\* Every step of access_slice leaves the heaps as they are.
SliceAlone ==
    UNCHANGED <<heap, arena, syms, mem, osUsed, guard, mutates, allocs, lookups,
                result, rt, pushed, dict, live, bump, views, owned>>

\* array.access_slice(view, f), up to the call of f: the flag is set, the
\* slice is made and the closure begins.
AccessSliceEnter ==
    /\ guard
    /\ ops < MaxArrayOps
    /\ array' = [array EXCEPT !.borrow = EXPOSED_MUTABLY]
    /\ slices' = Append(slices, as_slice(array))
    /\ call' = [fn |-> "access_slice", args |-> <<>>,
                ret |-> [status |-> "Running", item |-> NoItem]]
    /\ ops' = ops + 1
    /\ SliceAlone

\* array.access_slice(view, f), from the return of f: the closure that began
\* last returns and the flag is set to INTERIOR_ONLY.
AccessSliceReturn ==
    /\ guard
    /\ slices # <<>>
    /\ array' = [array EXCEPT !.borrow = INTERIOR_ONLY]
    /\ slices' = SubSeq(slices, 1, Len(slices) - 1)
    /\ call' = [fn |-> "access_slice", args |-> <<>>,
                ret |-> [status |-> "Returned", item |-> NoItem]]
    /\ UNCHANGED ops
    /\ SliceAlone

NextArray ==
    \/ MutateEnter
    \/ \E capacity \in ArrayCapacities, os \in OsReplies : WithCapacity(capacity, os)
    \/ \E os \in OsReplies : Push(MaxArrayOps, os)
    \/ Pop(MaxArrayOps)
    \/ \E size \in FillSizes, os \in OsReplies : Fill(size, os)
    \/ ClearArray
    \/ AccessSliceEnter
    \/ AccessSliceReturn

SpecArray == Init /\ [][NextArray]_vars

(***************************************************************************)
(* A Dict used inside Memory::mutate, as in the tests of dict.rs: it is    *)
(* made by Dict::new() or Dict::with_capacity, then keys are associated,   *)
(* dissociated and looked up.  Each assoc stores a new number as value.    *)
(***************************************************************************)
\* The effect on the state of a call on the Dict that returned r.
DictEffect(fn, args, r, os) ==
    /\ dict' = r.dict
    /\ heap' = r.blocks
    /\ mem' = r.mem
    /\ osUsed' = IF r.took THEN osUsed \cup {os} ELSE osUsed
    /\ call' = [fn |-> fn, args |-> args,
                ret |-> [status |-> r.status, value |-> r.value]]
    /\ UNCHANGED <<arena, syms, guard, mutates, allocs, lookups, result, rt,
                   array, pushed, bump, views, owned, slices>>

\* The mutator goes on after a call on the Dict unless the call never
\* returned, panicked, or failed to make the Dict.
DictInUse ==
    /\ guard
    /\ ops >= 1
    /\ call.ret.status \notin {"Loops", "Panic"}
    /\ ~(call.fn = "Dict::with_capacity" /\ call.ret.status # "Ok")

\* What a map holds after a call.
MapAssoc(map, status, key, value) ==
    IF status = "Ok"
        THEN [k \in DOMAIN map \cup {key} |-> IF k = key THEN value ELSE map[k]]
    ELSE map
MapDissoc(map, key) == [k \in DOMAIN map \ {key} |-> map[k]]

\* let dict = Dict::new();
NewDict ==
    /\ guard
    /\ ops = 0
    /\ DictEffect("Dict::new", <<>>, DictRet("Ok", FatNil, DictNew, heap, mem, FALSE), OOM)
    /\ ops' = 1
    /\ live' = EmptyMap

\* let dict = Dict::with_capacity(mem, capacity)?;
NewDictWithCapacity(capacity, os) ==
    /\ guard
    /\ ops = 0
    /\ DictEffect("Dict::with_capacity", <<capacity>>,
                  DictWithCapacity(heap, mem, capacity, os), os)
    /\ ops' = 1
    /\ live' = EmptyMap

AssocDone(r, key, value, os) ==
    /\ DictEffect("assoc", <<key, value>>, r, os)
    /\ live' = MapAssoc(live, r.status, key, value)
    /\ ops' = ops + 1

\* dict.assoc(mem, key, value)
Assoc(key, os) ==
    /\ DictInUse
    /\ ops < MaxDictOps
    /\ AssocDone(DictAssoc(dict, heap, mem, key, FatNumber(ops), os), key,
                 FatNumber(ops), os)

\* dict.dissoc(mem, key)
Dissoc(key) ==
    /\ DictInUse
    /\ ops < MaxDictOps
    /\ DictEffect("dissoc", <<key>>, DictDissoc(dict, heap, mem, key), OOM)
    /\ live' = MapDissoc(live, key)
    /\ ops' = ops + 1

\* dict.clear(mem)
Clear ==
    /\ DictInUse
    /\ ops < MaxDictOps
    /\ DictEffect("clear", <<>>, DictClear(dict, heap, mem), OOM)
    /\ live' = EmptyMap
    /\ ops' = ops + 1

\* dict.lookup(mem, key)
Lookup(key) ==
    /\ DictInUse
    /\ DictEffect("lookup", <<key>>, DictLookup(dict, heap, mem, key), OOM)
    /\ UNCHANGED <<ops, live>>

\* dict.exists(mem, key)
Exists(key) ==
    /\ DictInUse
    /\ DictEffect("exists", <<key>>, DictExists(dict, heap, mem, key), OOM)
    /\ UNCHANGED <<ops, live>>

\* The keys used: two symbols, the numbers 1 and 9, the number that is the
\* hash of the second symbol, and a Pair, which is not hashable.
HashableKeys ==
    {SymbolKey(1), SymbolKey(2), FatNumber(1), FatNumber(9),
     FatNumber(AsIsize(SymbolHash(2)))}
DictKeys == HashableKeys \cup {[variant |-> "Pair", val |-> 0]}

\* The capacities a Dict is made with.
DictCapacities == {0, 1, 2}

NextDict ==
    \/ MutateEnter
    \/ NewDict
    \/ \E capacity \in DictCapacities, os \in OsReplies : NewDictWithCapacity(capacity, os)
    \/ \E key \in DictKeys, os \in OsReplies : Assoc(key, os)
    \/ \E key \in DictKeys : Dissoc(key)
    \/ Clear
    \/ \E key \in DictKeys : Lookup(key)
    \/ \E key \in DictKeys : Exists(key)

SpecDict == Init /\ [][NextDict]_vars

(***************************************************************************)
(* A BumpBlock on its own, as in the tests of bumpblock.rs: the block is   *)
(* new, or new with lines marked and `limit = cursor` (recycled), and      *)
(* inner_alloc is called on it again and again.                            *)
(***************************************************************************)
\* The allocation units of loop_check_allocate: the alignment, and larger
\* multiples of it that divide LINE_SIZE, up to LINE_SIZE.
AllocUnits == {SizeOfUsize, LINE_SIZE \div 4, LINE_SIZE}
\* The sizes asked of a block in turn, when they vary: nothing, less than a
\* word, a word, a line, more than a line, several lines, the whole object
\* area, and the largest usize.
BumpSizes ==
    {0, 1, SizeOfUsize, LINE_SIZE, LINE_SIZE + 1, 3 * LINE_SIZE, BLOCK_CAPACITY,
     UsizeModulus - 1}
\* The blocks' base addresses: the lowest and the highest the platform
\* hands out.
BumpBases == {BLOCK_SIZE, MaxBlocks * BLOCK_SIZE}
\* The numbers of lines marked from line 0 up (test_half_block marks
\* LINE_COUNT / 2): one, half, all lines of the object area but one, all of
\* them, and all the lines that have a mark.
MarkedLow == {1, LINE_COUNT \div 2, LINE_MARK_COUNT - 1, LINE_MARK_COUNT, LINE_COUNT}
LowestLines(k) == 0..(k - 1)
\* The runs of calls: sizes that vary (unit 0) on blocks at each base, and
\* one unit until the block returns none, as loop_check_allocate does.
FreshRuns == (BumpBases \X {0}) \cup ({BLOCK_SIZE} \X AllocUnits)
RecycledRuns ==
    (BumpBases \X MarkSets \X {0})
        \cup ({BLOCK_SIZE} \X {LowestLines(k) : k \in MarkedLow} \X (AllocUnits \cup {0}))

BumpAlone ==
    UNCHANGED <<heap, arena, syms, mem, osUsed, guard, mutates, allocs, lookups,
                result, rt, call, array, pushed, ops, dict, live, views, owned,
                slices>>

\* let mut b = BumpBlock::new().unwrap()
NewBumpBlock(os, unit) ==
    /\ bump.kind = "none"
    /\ BumpBlockNew(os).status = "Ok"
    /\ bump' = [NoBump EXCEPT !.kind = "fresh", !.unit = unit,
                              !.block = BumpBlockNew(os).block]
    /\ BumpAlone

\* BumpBlock::new, b.meta.mark_line(i) for the lines of `marks`, and
\* b.limit = b.cursor
RecycleBumpBlock(os, marks, unit) ==
    /\ bump.kind = "none"
    /\ BumpBlockNew(os).status = "Ok"
    /\ bump' = [NoBump EXCEPT !.kind = "recycled", !.unit = unit,
                              !.block = RecycledBlock(BumpBlockNew(os).block, marks)]
    /\ BumpAlone

\* The block has returned none to the last call.
Exhausted == bump.last.called /\ ~bump.last.some
\* The record of the block after a call of inner_alloc that returned `r`.
AfterInnerAlloc(b, alloc_size, r) ==
    [b EXCEPT !.block = r.block,
              !.last = [called |-> TRUE, bytes |-> alloc_size, some |-> r.some,
                        ptr |-> r.ptr, searches |-> r.searches],
              !.returned = IF b.last.some
                              THEN b.returned \cup {[ptr |-> b.last.ptr,
                                                     bytes |-> b.last.bytes]}
                           ELSE b.returned,
              !.calls = b.calls + 1,
              !.count = IF r.some THEN b.count + 1 ELSE b.count]

\* b.inner_alloc(alloc_size): with one unit, until the block returns none
\* (loop_check_allocate); with sizes that vary, MaxBumpCalls times.
InnerAlloc(alloc_size) ==
    /\ bump.kind # "none"
    /\ IF bump.unit # 0
        THEN alloc_size = bump.unit /\ ~Exhausted
        ELSE alloc_size \in BumpSizes /\ bump.calls < MaxBumpCalls
    /\ bump' = AfterInnerAlloc(bump, alloc_size, inner_alloc(bump.block, alloc_size))
    /\ BumpAlone

NextBump ==
    \/ \E run \in FreshRuns : NewBumpBlock(run[1], run[2])
    \/ \E run \in RecycledRuns : RecycleBumpBlock(run[1], run[2], run[3])
    \/ \E alloc_size \in BumpSizes \cup AllocUnits : InnerAlloc(alloc_size)

SpecBump == Init /\ [][NextBump]_vars

(***************************************************************************)
(* The claims.                                                             *)
(***************************************************************************)
\* The byte ranges of two allocations do not overlap.
Disjoint(a, b) ==
    \/ a.space + a.alloc_size <= b.space
    \/ b.space + b.alloc_size <= a.space

\* A size rounded up to a multiple of the machine word.
WordRounded(n) == ((n + SizeOfUsize - 1) \div SizeOfUsize) * SizeOfUsize

\* The block an address lies in.
BlockOf(addr) == addr \div BLOCK_SIZE

\* C1: the byte ranges [header address, header address + word-rounded total
\* size) of the allocations of one heap are pairwise disjoint, and the value
\* written into each allocated object is read back unchanged after all later
\* allocations.
C1_AllocationsDisjoint ==
    /\ \A i, j \in DOMAIN allocs :
            i < j => Disjoint(allocs[i], allocs[j])
    /\ \A i \in DOMAIN allocs :
            /\ allocs[i].alloc_size = WordRounded(ObjectHeaderSize + allocs[i].size)
            /\ allocs[i].kind = "object" =>
                    ReadValue(mem, allocs[i].ptr, allocs[i].size, "object")
                        = [kind |-> "object", val |-> allocs[i].object]

\* C1 witness: three allocations, Small and Medium, spread over a head block,
\* an overflow block and a retired block.
C1_Witness ==
    /\ Len(allocs) >= 3
    /\ heap.head # <<>> /\ heap.overflow # <<>> /\ heap.rest # <<>>
    /\ \E i, j \in DOMAIN allocs :
            /\ allocs[i].alloc_size <= LINE_SIZE
            /\ allocs[j].alloc_size > LINE_SIZE
            /\ BlockOf(allocs[i].ptr) # BlockOf(allocs[j].ptr)

\* C2: every payload address returned by alloc or alloc_array is a multiple
\* of 16: (addr & (16 - 1)) == 0.
C2_PayloadAligned16 ==
    \A i \in DOMAIN allocs : BitAnd(allocs[i].ptr, 16 - 1) = 0

\* C3: for every payload pointer p the heap returned,
\* get_object(get_header(p)) = p; for every header pointer h,
\* get_header(get_object(h)) = h; and get_header(p) is p minus the size of the
\* header, the address the header was written at.
C3_HeaderObjectInverse ==
    \A i \in DOMAIN allocs :
        LET p == allocs[i].ptr
            h == allocs[i].space
        IN  /\ get_object("ObjectHeader", get_header("ObjectHeader", p)) = p
            /\ get_header("ObjectHeader", get_object("ObjectHeader", h)) = h
            /\ get_header("ObjectHeader", p) = p - ObjectHeaderSize
            /\ get_header("ObjectHeader", p) = h

\* C3 witness: payload pointers of an object and of an array in two blocks.
C3_Witness ==
    \E i, j \in DOMAIN allocs :
        /\ allocs[i].kind = "object"
        /\ allocs[j].kind = "array"
        /\ BlockOf(allocs[i].ptr) # BlockOf(allocs[j].ptr)

\* C4: in every reachable state the header before every object allocated by
\* alloc::<T> carries mark Allocated, T's type tag, size = size_of::<T>() and
\* the size class of the word-rounded size of header plus payload.
C4_ObjectHeaderContents ==
    \A i \in DOMAIN allocs :
        allocs[i].kind = "object" =>
            LET a == allocs[i]
                h == ReadValue(mem, a.ptr - ObjectHeaderSize, ObjectHeaderSize, "header")
            IN  /\ h.kind = "header"
                /\ h.val.mark = "Allocated"
                /\ h.val.type_id = a.type_id
                /\ h.val.size_bytes = a.size
                /\ h.val.size_class =
                        (IF WordRounded(ObjectHeaderSize + a.size) <= LINE_SIZE
                            THEN "Small" ELSE "Medium")

\* C4 witness: an object with a 24-byte payload, followed by later
\* allocations, one of them in another block.
C4_Witness ==
    \E i, j \in DOMAIN allocs :
        /\ i < j
        /\ allocs[i].kind = "object" /\ allocs[i].size = 24
        /\ BlockOf(allocs[i].ptr) # BlockOf(allocs[j].ptr)

\* C5: an alloc or alloc_array whose word-rounded size of header plus payload
\* exceeds BLOCK_CAPACITY returns Err(BadRequest), on an empty heap and on a
\* heap that has a head block.
C5_LargeIsBadRequest ==
    (/\ result.op \in {"alloc", "alloc_tagged", "alloc_array"}
     /\ WordRounded(ObjectHeaderSize + result.size) > BLOCK_CAPACITY)
        => result.status = "BadRequest"

\* C5 witness: an array one byte too large for a block is refused on a heap
\* that has a head block.
C5_Witness ==
    /\ result.op = "alloc_array"
    /\ result.size = BLOCK_CAPACITY - ObjectHeaderSize + 1
    /\ result.status = "BadRequest"
    /\ heap.head # <<>>

\* C6: a call that returns BadRequest or OOM leaves the heap as it was: the
\* same blocks in head, overflow and rest with the same cursor and limit, no
\* byte of memory written and no block taken from the platform.
C6_FailureLeavesHeap ==
    [][ result'.status \in {"BadRequest", "OOM"}
            => /\ heap' = heap
               /\ mem' = mem
               /\ osUsed' = osUsed
               /\ allocs' = allocs ]_vars

\* C6 witness: the platform refused a block when the head and the overflow
\* block were both in use.
C6_Witness ==
    /\ result.status = "OOM"
    /\ heap.head # <<>>
    /\ heap.overflow # <<>>

\* C7: no allocation failure makes alloc, alloc_tagged, alloc_array or
\* lookup_sym panic: the failure is handed back as an error.
C7_NoPanic == result.status # "Panic"

\* C8: the n bytes of the payload alloc_array(n) returns are all zero, and the
\* header before the payload has the array-backing-bytes type tag, size n and
\* mark Allocated.
C8_ArrayZeroed ==
    \A i \in DOMAIN allocs :
        allocs[i].kind = "array" =>
            LET a == allocs[i]
                h == ReadValue(mem, a.ptr - ObjectHeaderSize, ObjectHeaderSize, "header")
            IN  /\ \A e \in Edges(mem, a.ptr, a.size) :
                        ReadByte(mem, e) = [kind |-> "zero", val |-> 0]
                /\ h.kind = "header"
                /\ h.val.type_id = "ArrayBackingBytes"
                /\ h.val.size_bytes = a.size
                /\ h.val.mark = "Allocated"

\* C8 witness: an array of 5 bytes and an array of the size of a whole block,
\* with an allocation made after them.
C8_Witness ==
    \E i, j, k \in DOMAIN allocs :
        /\ i # j /\ i < k /\ j < k
        /\ allocs[i].kind = "array" /\ allocs[i].size = 5
        /\ allocs[j].kind = "array"
        /\ allocs[j].size = BLOCK_CAPACITY - ObjectHeaderSize

\* C9: two symbol lookups on one Memory return the same Symbol pointer, and
\* the same tagged word, if and only if their names are equal.
C9_SymbolIdentity ==
    \A i, j \in DOMAIN lookups :
        /\ (lookups[i].ptr = lookups[j].ptr) <=> (lookups[i].name = lookups[j].name)
        /\ (lookups[i].word = lookups[j].word) <=> (lookups[i].name = lookups[j].name)

\* C9 witness: one name looked up in two mutate calls, and another name.
C9_Witness ==
    \E i, j, k \in DOMAIN lookups :
        /\ lookups[i].name = lookups[j].name
        /\ lookups[i].call # lookups[j].call
        /\ lookups[k].name # lookups[i].name

\* C10: converting a FatPtr to a TaggedPtr and decoding it back yields the
\* same variant with the same pointer or number.
C10_FatPtrRoundTrip == rt.done => rt.back = rt.f

\* C11: a TaggedPtr is nil (word 0, is_nil() true, decoded as FatPtr::Nil) only
\* if it was made from nil: TaggedPtr::number(v) and TaggedPtr::from(f) for a
\* FatPtr f other than Nil never yield the word 0.
C11_NilOnlyFromNil ==
    (rt.done /\ rt.f # FatNil)
        => (rt.t # TaggedPtrNil /\ ~is_nil(rt.t) /\ rt.back # FatNil)

\* C12: for every isize v, TaggedPtr::number(v) has its two low bits clear and
\* is decoded, by an arithmetic shift right by two, as FatPtr::Number(v).
C12_NumberEncoding ==
    (rt.done /\ rt.f.variant = "Number")
        => (BitAnd(rt.t, TAG_MASK) = 0 /\ rt.back = FatNumber(rt.f.val))

\* A positive power of two.
IsPowerOfTwo(n) == \E k \in 0..(WordBits - 1) : n = 2 ^ k

\* C13: for every size that is a positive power of two, a Block::new(size)
\* that succeeds returns a block whose base address has its low bits clear,
\* base & (size - 1) = 0, and whose size() is size.
C13_BlockAligned ==
    (/\ call.fn = "Block::new"
     /\ IsPowerOfTwo(call.args[1])
     /\ call.ret.status = "Ok")
        => /\ BitAnd(call.ret.ptr, call.args[1] - 1) = 0
           /\ call.ret.size = call.args[1]

\* C13 witness: a block of BLOCK_SIZE bytes was made when the place the
\* platform had free was not aligned to that size.
C13_Witness ==
    /\ call.fn = "Block::new"
    /\ call.args[1] = BLOCK_SIZE
    /\ call.args[2] % BLOCK_SIZE # 0
    /\ call.ret.status = "Ok"

\* C14: for every size that is not a positive power of two, zero included,
\* Block::new(size) returns Err(BadRequest) and allocates no block.
C14_BadSizeIsBadRequest ==
    (call.fn = "Block::new" /\ ~IsPowerOfTwo(call.args[1]))
        => (call.ret.status = "BadRequest" /\ call.ret.ptr = 0)

\* The size class the specification gives a size: Small up to a line of 128
\* bytes, Medium up to the block capacity of 32512 bytes, Large up to the
\* largest ArraySize, BadRequest for zero and for anything larger.
ClassOfSize(s) ==
    IF 1 <= s /\ s <= 128 THEN "Small"
    ELSE IF 129 <= s /\ s <= 32512 THEN "Medium"
    ELSE IF 32513 <= s /\ s <= (2 ^ ArraySizeBits) - 1 THEN "Large"
    ELSE "BadRequest"

\* C15: get_for_size(s) is Small for 1 <= s <= LINE_SIZE, Medium for
\* LINE_SIZE + 1 <= s <= BLOCK_CAPACITY, Large from BLOCK_CAPACITY + 1 to the
\* largest ArraySize and BadRequest for 0 and for larger sizes; and the class
\* the heap puts in a header is that of the word-rounded size of header plus
\* payload, not that of the payload.
C15_SizeClasses ==
    /\ call.fn = "get_for_size" =>
            /\ call.ret.class = ClassOfSize(call.args[1])
            /\ call.ret.ok <=> ClassOfSize(call.args[1]) # "BadRequest"
    /\ (call.fn = "alloc_array" /\ call.ret.status = "Ok") =>
            LET h == ReadValue(call.ret.mem, call.ret.space, ObjectHeaderSize, "header")
            IN  /\ h.kind = "header"
                /\ h.val.size_class =
                        ClassOfSize(WordRounded(ObjectHeaderSize + call.args[1]))

\* C15 witness: an array whose payload alone is Small was given the class
\* Medium, because with its header it is larger than a line.
C15_Witness ==
    /\ call.fn = "alloc_array"
    /\ call.ret.status = "Ok"
    /\ ClassOfSize(call.args[1]) = "Small"
    /\ ReadValue(call.ret.mem, call.ret.space, ObjectHeaderSize, "header").val.size_class
            = "Medium"

C17_AlternateMarksNoHole ==
    /\ (/\ call.fn = "find_next_available_hole"
        /\ call.args[1] = {i \in 0..(LINE_COUNT - 1) : i % 2 = 0}
        /\ call.args[2] = BLOCK_CAPACITY
        /\ call.args[3] >= 1)
       => ~call.ret.found
    /\ (/\ call.fn = "inner_alloc"
        /\ call.args[1] = {i \in 0..(LINE_COUNT - 1) : i % 2 = 0}
        /\ call.args[2] >= 1)
       => /\ ~call.ret.some
          /\ call.ret.block.cursor = call.ret.block.base + BLOCK_CAPACITY
          /\ call.ret.block.limit = call.ret.block.cursor

\* C17 witness: a recycled block with every even line marked was asked for a
\* word and served nothing.
C17_Witness ==
    /\ call.fn = "inner_alloc"
    /\ call.args[1] = EvenLines
    /\ call.args[2] = SizeOfUsize
    /\ ~call.ret.some

\* C18 as the specification states it: with exactly the lines {0,1,2,4,10}
\* marked, a hole search starting from BLOCK_CAPACITY for 128 bytes returns
\* the hole ending at 10*LINE_SIZE and beginning at 6*LINE_SIZE.
C18_HoleBelowLine10FromCapacity ==
    (/\ call.fn = "find_next_available_hole"
     /\ call.args = <<{0, 1, 2, 4, 10}, BLOCK_CAPACITY, 128>>)
    => (call.ret.found /\ call.ret.cursor = 10 * LINE_SIZE
                       /\ call.ret.limit = 6 * LINE_SIZE)

\* C18: with exactly the lines {0,1,2,4,10} marked, a hole search starting
\* from 10*LINE_SIZE for 128 bytes returns the hole ending at 10*LINE_SIZE
\* and beginning at 6*LINE_SIZE, line 5 being held back as conservatively
\* marked; a search starting from BLOCK_CAPACITY returns the hole above line
\* 10 instead, ending at BLOCK_CAPACITY and beginning at 12*LINE_SIZE.
C18_HoleBelowLine10 ==
    /\ (/\ call.fn = "find_next_available_hole"
        /\ call.args = <<{0, 1, 2, 4, 10}, 10 * LINE_SIZE, 128>>)
       => (call.ret.found /\ call.ret.cursor = 10 * LINE_SIZE
                          /\ call.ret.limit = 6 * LINE_SIZE)
    /\ (/\ call.fn = "find_next_available_hole"
        /\ call.args = <<{0, 1, 2, 4, 10}, BLOCK_CAPACITY, 128>>)
       => (call.ret.found /\ call.ret.cursor = BLOCK_CAPACITY
                          /\ call.ret.limit = 12 * LINE_SIZE)

\* C18 witness: the search from 10*LINE_SIZE was made and found a hole
\* beginning above line 5.
C18_Witness ==
    /\ call.fn = "find_next_available_hole"
    /\ call.args = <<{0, 1, 2, 4, 10}, 10 * LINE_SIZE, LINE_SIZE>>
    /\ call.ret.found
    /\ call.ret.limit > 5 * LINE_SIZE

\* The allocation a step made, if it made one.
Allocated == allocs' # allocs
LastAlloc == allocs'[Len(allocs')]
\* The step allocated a Medium object while there was a head block whose
\* current hole was smaller than the object.
MediumPastHeadHole ==
    /\ Allocated
    /\ heap.head # <<>>
    /\ LastAlloc.alloc_size > LINE_SIZE
    /\ LastAlloc.alloc_size > heap.head[1].cursor - heap.head[1].limit
\* The object is at the cursor of the overflow block, inside that block.
InOverflowBlock ==
    /\ heap'.overflow # <<>>
    /\ LastAlloc.space = heap'.overflow[1].cursor
    /\ heap'.overflow[1].base <= LastAlloc.space
    /\ LastAlloc.space + LastAlloc.alloc_size <= heap'.overflow[1].base + BLOCK_CAPACITY
\* The overflow block is the one there was, or a new one: new when there was
\* none, or when the one there was could not hold the object, which is then
\* pushed to rest.
OverflowKeptOrReplaced ==
    IF heap.overflow = <<>>
        THEN heap'.rest = heap.rest /\ heap'.overflow[1].base \notin osUsed
    ELSE IF heap.overflow[1].cursor - heap.overflow[1].limit >= LastAlloc.alloc_size
        THEN /\ heap'.rest = heap.rest
             /\ heap'.overflow[1].base = heap.overflow[1].base
    ELSE /\ heap'.rest = Append(heap.rest, heap.overflow[1])
         /\ heap'.overflow[1].base \notin osUsed

\* C19: when a head block exists and a Medium request is larger than the
\* head's current hole, the object is placed in the overflow block (created
\* on first use; retired to rest and replaced by a new block when it cannot
\* hold the request) and never in the head, whose cursor and limit are
\* unchanged.
C19_MediumGoesToOverflow ==
    [][MediumPastHeadHole
        => (heap'.head = heap.head /\ InOverflowBlock /\ OverflowKeptOrReplaced)]_vars

\* C19 witness: with a head block in place, an overflow block that was full
\* has been retired to rest and the object placed in its replacement.
C19_Witness ==
    /\ heap.head # <<>>
    /\ heap.overflow # <<>>
    /\ heap.rest # <<>>
    /\ allocs # <<>>
    /\ allocs[Len(allocs)].space = heap.overflow[1].cursor
    /\ heap.head[1].cursor - heap.head[1].limit < allocs[Len(allocs)].alloc_size
    /\ heap.rest[Len(heap.rest)].cursor = heap.rest[Len(heap.rest)].limit

\* C20: equality of two ScopedPtr values is reference identity: a == b holds
\* exactly when both point at the same object (the same address), whatever
\* the objects hold.
C20_EqIsReferenceIdentity ==
    call.fn = "ScopedPtr::eq" => (call.ret <=> (call.args[1] = call.args[2]))

\* The array holds the items of the stack, oldest first.
StackHolds(arr, m, stack) ==
    /\ arr.length = Len(stack)
    /\ \A i \in DOMAIN stack :
            ReadItem(m, arr.data.ptr + (i - 1) * SizeOfItem)
                = [kind |-> "item", val |-> stack[i]]

\* What pop and top return when the stack holds `stack`.
ReturnsLast(stack, ret) ==
    IF stack = <<>> THEN ret.status = "BoundsError"
    ELSE ret.status = "Ok" /\ ret.item = [kind |-> "item", val |-> stack[Len(stack)]]

\* C22: an Array used through push, pop and top is a LIFO stack: pop returns
\* the item pushed last and not yet popped and the length goes down by one,
\* top returns that item and leaves the array as it is, pop and top of an empty
\* array return BoundsError, and the items stored stay what they were when the
\* storage grows.
C22_StackIsLifo ==
    [][/\ (call'.fn = "pop" /\ ops' # ops) =>
            /\ ReturnsLast(pushed, call'.ret)
            /\ array'.length = IF pushed = <<>> THEN 0 ELSE array.length - 1
       /\ (call'.fn = "top" /\ ops' = ops) =>
            /\ ReturnsLast(pushed, call'.ret)
            /\ array' = array
       /\ StackHolds(array', mem', pushed')]_vars

\* C22 witness: nine items were pushed, the storage grew with the ninth, the
\* ninth was popped and top returns the eighth.
C22_Witness ==
    /\ call.fn = "top"
    /\ call.ret.status = "Ok"
    /\ call.ret.item.val = DEFAULT_ARRAY_SIZE
    /\ array.data.capacity > DEFAULT_ARRAY_SIZE
    /\ array.length = DEFAULT_ARRAY_SIZE

\* C23: get and set of an Array are checked against its length: with an index
\* below the length get returns the item stored there and set stores the item
\* there; with any index from the length on, below the capacity or not, both
\* return BoundsError and neither the array nor memory changes.
C23_IndexedWithinLength ==
    [][/\ (call'.fn = "get" /\ ops' = ops) =>
            /\ array' = array /\ mem' = mem
            /\ IF call'.args[1] < Len(pushed)
                    THEN /\ call'.ret.status = "Ok"
                         /\ call'.ret.item
                                = [kind |-> "item", val |-> pushed[call'.args[1] + 1]]
               ELSE call'.ret.status = "BoundsError"
       /\ (call'.fn = "set" /\ ops' # ops) =>
            IF call'.args[1] < Len(pushed)
                THEN /\ call'.ret.status = "Ok"
                     /\ pushed'[call'.args[1] + 1] = call'.args[2]
            ELSE /\ call'.ret.status = "BoundsError"
                 /\ array' = array /\ mem' = mem
       /\ StackHolds(array', mem', pushed')]_vars

\* C23 witness: a set with an index past the length and below the capacity
\* was refused, after a set below the length that stored its item.
C23_Witness ==
    /\ call.fn = "set"
    /\ call.ret.status = "BoundsError"
    /\ array.length <= call.args[1]
    /\ call.args[1] < array.data.capacity
    /\ \E i \in DOMAIN pushed : pushed[i] > i + 1

\* The Dict answers lookup and exists as the map does.
AnswersAs(d, blocks, m, map) ==
    \A k \in HashableKeys :
        /\ (DictExists(d, blocks, m, k).status = "Ok(true)") <=> (k \in DOMAIN map)
        /\ k \in DOMAIN map =>
                /\ DictLookup(d, blocks, m, k).status = "Ok"
                /\ DictLookup(d, blocks, m, k).value = map[k]

\* C24: after every sequence of assoc, dissoc and clear on a Dict, with
\* symbols and numbers as keys, every call has returned and the Dict agrees
\* with a map: lookup(k) returns the value associated last with k, exists(k)
\* is true for the keys of the map and for no other, dissoc(k) returns the
\* value k had, and length() is the number of keys.
C24_DictAgreesWithMap ==
    [][(call'.fn \in {"assoc", "dissoc", "clear", "lookup", "exists"}
            /\ (call'.fn = "clear" \/ call'.args[1] \in HashableKeys)) =>
            /\ call'.ret.status \notin {"Loops", "Panic"}
            /\ dict'.length = Cardinality(DOMAIN live')
            /\ AnswersAs(dict', heap', mem', live')
            /\ (call'.fn = "dissoc" /\ ops' # ops /\ call'.args[1] \in DOMAIN live) =>
                    /\ call'.ret.status = "Ok"
                    /\ call'.ret.value = live[call'.args[1]]]_vars

\* C25: lookup and dissoc of a key that has no association return KeyError
\* and leave the Dict as it was, whatever the state of the Dict: made by
\* Dict::new(), made with any capacity, cleared, or after the key was
\* dissociated.
C25_AbsentKeyIsKeyError ==
    [][(/\ call'.fn \in {"lookup", "dissoc"}
        /\ call' # call
        /\ call'.args[1] \in HashableKeys
        /\ call'.args[1] \notin DOMAIN live) =>
            /\ call'.ret.status = "KeyError"
            /\ dict' = dict
            /\ mem' = mem]_vars

\* The lines a hole (high, low) covers.
HoleLines(high, low) == (low \div LINE_SIZE)..((high \div LINE_SIZE) - 1)
\* The hole find_next_available_hole returned lies below the line the search
\* started in, is not empty, holds the bytes asked for, and is made of
\* unmarked lines none of which lies directly above a marked line.
HoleIsFree(marks, starting_at, alloc_size, high, low) ==
    /\ low < high
    /\ high <= (starting_at \div LINE_SIZE) * LINE_SIZE
    /\ high - low >= alloc_size
    /\ \A line \in HoleLines(high, low) :
            /\ line \notin marks
            /\ line = 0 \/ (line - 1) \notin marks
    /\ low # 0 =>
            /\ ((low \div LINE_SIZE) - 2) \in marks
            /\ low % LINE_SIZE = 0

\* C26: for every request of at least one byte, a hole (high, low) returned
\* by find_next_available_hole satisfies low < high <= starting_at rounded
\* down to a line boundary, high - low >= the bytes requested, every line of
\* the hole is unmarked and none of them is the line directly above a marked
\* line: a hole bounded below by the marked line i starts at
\* (i + 2) * LINE_SIZE.
C26_HoleIsUnmarkedAndLargeEnough ==
    (/\ call.fn = "find_next_available_hole"
     /\ call.args[3] >= 1
     /\ call.ret.found)
        => HoleIsFree(call.args[1], call.args[2], call.args[3],
                      call.ret.cursor, call.ret.limit)

\* A search started inside line 10 found a hole above a marked line.
C26_Witness ==
    /\ call.fn = "find_next_available_hole"
    /\ call.args[2] % LINE_SIZE # 0
    /\ call.args[3] > LINE_SIZE
    /\ call.ret.found
    /\ call.ret.limit > 0
    /\ (call.ret.limit \div LINE_SIZE) - 2 \in call.args[1]

\* The lines a maximal run of unmarked lines below the line `starting_line`
\* ends under: the starting line itself and the marked lines below it, when
\* the line under them is unmarked.
RunTops(marks, starting_line) ==
    {hi \in 1..starting_line :
        /\ hi = starting_line \/ hi \in marks
        /\ (hi - 1) \notin marks}
\* The lowest line of the maximal run of unmarked lines that ends under `hi`.
RunBottom(marks, hi) ==
    CHOOSE lo \in 0..(hi - 1) :
        /\ lo = 0 \/ (lo - 1) \in marks
        /\ \A line \in lo..(hi - 1) : line \notin marks
\* The runs that qualify for `bytes` bytes, each named by the line it ends
\* under: those that reach line 0 with ceil(bytes / LINE_SIZE) lines, and
\* those above a marked line with one line more.
LinesFor(bytes) == (bytes + LINE_SIZE - 1) \div LINE_SIZE
QualifyingTops(marks, starting_line, bytes) ==
    {hi \in RunTops(marks, starting_line) :
        IF RunBottom(marks, hi) = 0
            THEN hi >= LinesFor(bytes)
            ELSE hi - RunBottom(marks, hi) >= LinesFor(bytes) + 1}
HighestTop(tops) == CHOOSE hi \in tops : \A other \in tops : other <= hi
\* What a search that returns the run ending under `hi` returns.
HoleOfRun(marks, hi) ==
    [found |-> TRUE, cursor |-> hi * LINE_SIZE,
     limit |-> IF RunBottom(marks, hi) = 0 THEN 0
               ELSE (RunBottom(marks, hi) + 1) * LINE_SIZE]
HighestQualifyingRun(marks, tops) ==
    IF tops = {} THEN NoHole ELSE HoleOfRun(marks, HighestTop(tops))

\* C27: find_next_available_hole returns the highest-addressed qualifying
\* run of unmarked lines below the starting line, a maximal run qualifying
\* if it reaches line 0 with at least ceil(bytes / LINE_SIZE) lines or lies
\* above a marked line with at least one line more than that; it returns
\* none exactly when no run qualifies.
C27_HighestQualifyingRun ==
    call.fn = "find_next_available_hole"
        => call.ret = HighestQualifyingRun(
                call.args[1],
                QualifyingTops(call.args[1], call.args[2] \div LINE_SIZE, call.args[3]))

\* The search passed over a run too short for the request and returned a
\* lower one that lies above a marked line.
C27_Witness ==
    /\ call.fn = "find_next_available_hole"
    /\ call.ret.found
    /\ call.ret.limit > 0
    /\ \E hi \in RunTops(call.args[1], call.args[2] \div LINE_SIZE) :
            hi * LINE_SIZE > call.ret.cursor

\* The cursor and the limit of a block lie in its object area, the limit not
\* above the cursor, and both are multiples of the size of a machine word.
CursorAndLimitInPlace(block) ==
    /\ block.base <= block.limit
    /\ block.limit <= block.cursor
    /\ block.cursor <= block.base + BLOCK_CAPACITY
    /\ block.cursor % SizeOfUsize = 0
    /\ block.limit % SizeOfUsize = 0

\* C28: in every state reached by inner_alloc calls on a BumpBlock, new or
\* recycled, base <= limit <= cursor <= base + BLOCK_CAPACITY, the cursor and
\* the limit are aligned to the machine word, and no call moves the cursor
\* up.
C28_CursorStaysInPlace ==
    [][/\ CursorAndLimitInPlace(bump'.block)
       /\ bump.kind # "none" => bump'.block.cursor <= bump.block.cursor]_vars

\* A call on a recycled block has moved to a hole above a marked line and
\* bumped the cursor down in it, by a size that is no multiple of a word.
C28_Witness ==
    /\ bump.kind = "recycled"
    /\ bump.last.some
    /\ bump.last.bytes % SizeOfUsize # 0
    /\ bump.block.limit > bump.block.base
    /\ bump.block.cursor < bump.block.base + BLOCK_CAPACITY - LINE_SIZE
    /\ bump.block.cursor > bump.block.limit

\* The ranges [a, a + n) and [b, b + m) have a byte in common.
Overlap(a, n, b, m) == n > 0 /\ m > 0 /\ a < b + m /\ b < a + n
\* The range [ptr, ptr + bytes) lies in the object area of the block, has no
\* byte in common with a range of `earlier`, nor with a marked line.
RangeIsFree(block, ptr, bytes, earlier) ==
    /\ block.base <= ptr
    /\ ptr + bytes <= block.base + BLOCK_CAPACITY
    /\ \A r \in earlier : ~Overlap(ptr, bytes, r.ptr, r.bytes)
    /\ \A line \in block.marks :
            ~Overlap(ptr, bytes, block.base + (line * LINE_SIZE), LINE_SIZE)

\* C29: each Some(ptr) returned by inner_alloc(bytes) denotes a range
\* [ptr, ptr + bytes) inside the object area of the block, below the bytes
\* of the line marks, that overlaps no range the block returned earlier and
\* no marked line.
C29_ReturnedRangeIsFree ==
    bump.last.some
        => RangeIsFree(bump.block, bump.last.ptr, bump.last.bytes, bump.returned)

\* After other ranges, a recycled block returned a range of more than a line
\* in a hole below a marked line.
C29_Witness ==
    /\ bump.kind = "recycled"
    /\ bump.last.some
    /\ bump.last.bytes > LINE_SIZE
    /\ \E r \in bump.returned : r.bytes > 0 /\ r.ptr > bump.last.ptr
    /\ \E line \in bump.block.marks :
            bump.block.base + (line * LINE_SIZE) >= bump.last.ptr + bump.last.bytes

\* loop_check_allocate has returned: inner_alloc(unit) was called until it
\* returned none.
LoopReturned == bump.unit # 0 /\ Exhausted
\* The lowest k >= 1 lines of the block are marked, and no other.
LowestMarked(k) == k >= 1 /\ bump.block.marks = LowestLines(k)
\* The count test_half_block expects of a block whose lowest k lines are
\* marked.
HalfBlockCount(k, unit) ==
    (BLOCK_CAPACITY - LINE_SIZE - (k * LINE_SIZE)) \div unit

InnerAllocStep == bump.kind # "none" /\ bump'.calls = bump.calls + 1
\* The current hole of the block holds `bytes` bytes.
CurrentHoleHolds(block, bytes) == block.cursor - block.limit >= bytes
\* A run of unmarked lines below the limit of the block qualifies as a hole
\* for `bytes` bytes.
HoleBelowLimit(block, bytes) ==
    QualifyingTops(block.marks, (block.limit - block.base) \div LINE_SIZE, bytes) # {}

\* C31: inner_alloc returns none only when neither the current hole nor a
\* hole below the limit holds the request; a none leaves the cursor, the
\* limit and the line marks as they were, and a later request that the
\* current hole holds is served from it.
C31_NoneLeavesTheHole ==
    [][InnerAllocStep
        => /\ ~bump'.last.some
                => /\ bump'.block = bump.block
                   /\ ~CurrentHoleHolds(bump.block, bump'.last.bytes)
                   /\ ~HoleBelowLimit(bump.block, bump'.last.bytes)
           /\ (Exhausted /\ CurrentHoleHolds(bump.block, bump'.last.bytes))
                => /\ bump'.last.some
                   /\ bump'.last.ptr >= bump.block.limit
                   /\ bump'.last.ptr + bump'.last.bytes <= bump.block.cursor]_vars

\* A recycled block returned none to a request and still has the rest of the
\* hole it was allocating in.
C31_Witness ==
    /\ bump.kind = "recycled"
    /\ Exhausted
    /\ bump.count > 0
    /\ bump.block.limit > bump.block.base
    /\ bump.block.cursor > bump.block.limit

\* The hole a search below the limit of the block returns for `bytes` bytes.
HoleSearched(block, bytes) ==
    find_next_available_hole(block.marks, block.limit - block.base, bytes)
\* The range [ptr, ptr + bytes) lies in the hole, taken in the block.
InHole(block, hole, ptr, bytes) ==
    /\ block.base + hole.limit <= ptr
    /\ ptr + bytes <= block.base + hole.cursor

\* C32: inner_alloc(bytes) ends after at most one hole search: whenever
\* find_next_available_hole returns a hole, the call made again in that hole
\* succeeds without another search, so the recursion is one level deep at
\* most.
C32_OneHoleSearchAtMost ==
    [][InnerAllocStep
        => /\ bump'.last.searches <= 1
           /\ (bump'.last.searches >= 1 /\ HoleSearched(bump.block, bump'.last.bytes).found)
                => /\ bump'.last.some
                   /\ InHole(bump.block, HoleSearched(bump.block, bump'.last.bytes),
                             bump'.last.ptr, bump'.last.bytes)]_vars

\* A call searched once and was served from a second hole that its size
\* fills, after the search found a first hole for another call.
C32_Witness ==
    /\ bump.kind = "recycled"
    /\ bump.last.some
    /\ bump.last.searches = 1
    /\ bump.last.bytes = LINE_SIZE
    /\ bump.block.cursor = bump.block.limit
    /\ \E r \in bump.returned : r.bytes > LINE_SIZE

\* The step allocated an object that is Small, or no larger than the current
\* hole of the head, or there was no head.
ForTheHead ==
    /\ Allocated
    /\ \/ heap.head = <<>>
       \/ LastAlloc.alloc_size <= SMALL_OBJECT_MAX
       \/ LastAlloc.alloc_size <= current_hole_size(heap.head[1])
\* The object is at the cursor of the head block, inside that block.
InHeadBlock ==
    /\ heap'.head # <<>>
    /\ LastAlloc.space = heap'.head[1].cursor
    /\ heap'.head[1].base <= LastAlloc.space
    /\ LastAlloc.space + LastAlloc.alloc_size <= heap'.head[1].base + BLOCK_CAPACITY
\* The head is the one there was when it has a hole for the object; if not,
\* it is moved to rest and a new block is the head.
HeadKeptOrReplaced ==
    IF heap.head = <<>>
        THEN heap'.rest = heap.rest /\ heap'.head[1].base \notin osUsed
    ELSE IF \/ CurrentHoleHolds(heap.head[1], LastAlloc.alloc_size)
            \/ HoleBelowLimit(heap.head[1], LastAlloc.alloc_size)
        THEN /\ heap'.rest = heap.rest
             /\ heap'.head[1].base = heap.head[1].base
    ELSE /\ heap'.rest = Append(heap.rest, heap.head[1])
         /\ heap'.head[1].base \notin osUsed
\* The blocks of rest stay as they are, and the object is in none of them.
RestLeftAlone ==
    /\ Len(heap'.rest) >= Len(heap.rest)
    /\ \A i \in DOMAIN heap.rest : heap'.rest[i] = heap.rest[i]
    /\ Allocated
        => \A i \in DOMAIN heap'.rest :
                \/ LastAlloc.space + LastAlloc.alloc_size <= heap'.rest[i].base
                \/ LastAlloc.space >= heap'.rest[i].base + BLOCK_SIZE

\* C33: a Small object, and a Medium object no larger than the current hole
\* of the head, is placed in the head block and never in the overflow block;
\* when the head has no hole for it the head is moved to rest and a new block
\* becomes the head and takes the object; there is at most one head and one
\* overflow block, and a block of rest is never allocated into again.
C33_HeadServesSmallAndFitting ==
    [][/\ ForTheHead
            => (InHeadBlock /\ HeadKeptOrReplaced /\ heap'.overflow = heap.overflow)
       /\ Len(heap'.head) <= 1
       /\ Len(heap'.overflow) <= 1
       /\ RestLeftAlone]_vars

\* A Small object did not fit the head: the old head is the last block of
\* rest and the object is in the new head, beside an overflow block.
C33_Witness ==
    /\ heap.head # <<>>
    /\ heap.overflow # <<>>
    /\ heap.rest # <<>>
    /\ allocs # <<>>
    /\ allocs[Len(allocs)].alloc_size <= SMALL_OBJECT_MAX
    /\ allocs[Len(allocs)].space = heap.head[1].cursor
    /\ heap.head[1].cursor + allocs[Len(allocs)].alloc_size
            = heap.head[1].base + BLOCK_CAPACITY
    /\ current_hole_size(heap.rest[Len(heap.rest)]) < allocs[Len(allocs)].alloc_size

\* The FatPtr of the type's own variant that points at the object.
FatPtrTo(type_id, object) == [variant |-> type_id, val |-> object]

C35_OneMutatorView == Len(views) <= 1

\* C36: FatPtr equality is identity comparison: two FatPtr values are equal
\* exactly when they are the same variant holding the same pointer or the
\* same number, or both Nil; every FatPtr of any variant is equal to itself.
C36_FatPtrEqIsIdentity ==
    call.fn = "FatPtr::eq" => (call.ret <=> (call.args[1] = call.args[2]))

\* C37: the pointer returned by Block::into_mut_ptr still refers to allocated
\* memory: consuming the Block that way hands the region to the caller
\* without releasing it.
C37_IntoMutPtrKeepsRegion ==
    call.fn = "Block::into_mut_ptr"
        => (call.ret \in owned.live /\ owned.released[call.ret] = 0)

\* C38: after every Array operation (new, with_capacity, push, pop, fill,
\* clear) the length is at most the capacity of the backing RawArray, so
\* every index below the length addresses allocated storage.
C38_LengthWithinCapacity == array.length <= array.data.capacity

\* C39: while an access_slice closure is running on the array, push, pop,
\* clear and fill are rejected, so the slice handed to each running closure
\* stays valid until the closure returns: it is still the array's storage
\* and length.
C39_SliceStaysValid == \A i \in DOMAIN slices : slices[i] = as_slice(array)

\* C40: every Dict operation (assoc, lookup, exists, dissoc) terminates for
\* every capacity and every sequence of operations: the probe loop of
\* find_entry always comes to a never-used blank slot or to an entry with the
\* hash searched for.
C40_ProbeLoopStops ==
    call.fn \in {"assoc", "lookup", "exists", "dissoc"} => call.ret.status # "Loops"

====
